---- MODULE Spec2Model ----
(***************************************************************************)
(* A model of the routing subsystem of chain/network/src/routing/routing.rs *)
(*                                                                         *)
(*  - Graph: the integer-indexed adjacency store (p2id, id2p, used,        *)
(*    unused, adjacency, total_active_edges) with add_edge, remove_edge    *)
(*    and the bit-parallel BFS of calculate_distance / compute_result.     *)
(*  - RoutingTableView: peer_forwarding, route_nonce and the round-robin   *)
(*    next-hop selection of find_route_from_peer_id.                       *)
(*                                                                         *)
(* PeerIds are modelled as naturals (PeerId is totally ordered); the       *)
(* source peer (my_peer_id) is peer 0.  A Vec indexed by an id is a        *)
(* function on 0..len-1, a Vec used as a list or stack is a sequence, a    *)
(* HashMap is a function on its key set, and a u128 bitmask is the set of  *)
(* the positions of its 1 bits.                                            *)
(***************************************************************************)
EXTENDS Integers, Sequences, FiniteSets, TLC

VARIABLES
    graph,            \* the Graph object (a record of its fields)
    distance_result,  \* Some(map) right after calculate_distance returned map, else None
    edges,            \* history: the unordered pairs whose last operation was add_edge
    peak_peers,       \* history: the largest number of peers ever present at once
    ops_left,         \* the add_edge/remove_edge calls that may still change the graph in this run
    call_peers,       \* the peers the callers of this run pass to add_edge/remove_edge
    peer_forwarding,  \* RoutingTableView.peer_forwarding: PeerId -> Vec<PeerId>
    route_nonce,      \* RoutingTableView.route_nonce: the cached PeerId -> usize counters
    last_call,        \* the last RoutingTableView call: its name, target and return value
    calls,            \* history: the number of RoutingTableView calls made
    returned,         \* history: how many times find_route returned Ok(peer), per peer
    route_back,       \* RoutingTableView.route_back: CryptoHash -> (PeerId, insertion time)
    now,              \* the clock, in milliseconds
    route_back_log,   \* history: per hash, the last accepted add_route_back and what became of it
    peer_store,       \* the PeerStore object: its maps and the persisted Peers column
    edge,             \* the Edge at hand: received from a peer, built, or derived by remove_edge
    local_edges_info, \* RoutingTableView.local_edges_info: (PeerId, PeerId) -> Edge
    last_ping_nonce,  \* RoutingTableView.last_ping_nonce: the cached PeerId -> usize counters
    ping_log,         \* history: per peer, the get_ping calls made and whether its entry was evicted
    account_peers,    \* RoutingTableView.account_peers: the cached AccountId -> AnnounceAccount
    account_store,    \* the ColAccountAnnouncements column of the store
    account_log,      \* history: per account, the last add_account of a caller and its fate
    waiting_pong,     \* RoutingTableView.waiting_pong: per target, the cached nonce -> Instant of its pings
    pong_info,        \* RoutingTableView.pong_info: the cached nonce -> (Pong, count)
    pong_log          \* history: per (target, nonce), the unanswered sending_ping, the nonces recorded after it, and whether its target was evicted

graph_vars == <<graph, distance_result, edges, peak_peers, ops_left, call_peers>>

route_vars == <<peer_forwarding, route_nonce, last_call, calls, returned>>

back_vars == <<route_back, now, route_back_log>>

pong_vars == <<waiting_pong, pong_info, pong_log>>

view_vars == <<edge, local_edges_info, last_ping_nonce, ping_log,
               account_peers, account_store, account_log, pong_vars>>

vars == <<graph_vars, route_vars, back_vars, peer_store, view_vars>>

----------------------------------------------------------------------------
(* Bounds of the model *)

\* peers other than the source that add_edge/remove_edge are called with
NumPeers == 3
\* the number of add_edge/remove_edge calls that change the graph in a run
MaxOps == 5

\* runs that start from a source with MAX_NUM_PEERS - 1 or MAX_NUM_PEERS
\* neighbours: the peers beyond those neighbours that the callers name, and
\* the number of add_edge/remove_edge calls that change the graph
FanExtra == 2
FanOps == 2

\* the direct neighbours that peer_forwarding lists as next hops
NumHops == 3

\* the peers that edges are built between, and the width of a nonce in bits
NumEdgePeers == 2
NonceBits == 3

\* the peers that local edges lead to, the largest nonce of a local edge,
\* and the number of calls on local_edges_info in a run
NumLocalPeers == 2
MaxLocalNonce == 3
LocalCalls == 2

\* the targets of pings, the nonces a run names, the most nonces recorded
\* after an expectation before a run starts, and the number of
\* sending_ping/add_pong calls in a run
NumPongPeers == 2
NumPongNonces == 3
MaxLater == 11
PongCalls == 2

\* the number of find_route calls in a run that starts from counters left
\* by earlier calls
ClampCalls == 24

\* the number of calls in a run of add/remove cycles of one peer pair
CycleCalls == 8

\* the peers that are pinged, the pings a peer has had before a run starts,
\* and the number of get_ping calls in a run
NumPingPeers == 3
MaxPingsBefore == 2
PingCalls == 5

\* the accounts, the peers that announce them, the epochs of the
\* announcements, and the number of calls on the account directory in a run
NumAccounts == 2
NumAnnouncePeers == 2
NumEpochs == 2
AccountCalls == 3
\* the number of RoutingTableView calls in a run
MaxCalls == 12
\* the find_route calls of a round-robin run
RoundCalls == 30

\* the hashes that messages are routed back by, the calls on the route-back
\* cache in a run, and the clock: its step in milliseconds and its last step
NumHashes == 2
BackCalls == 4
TickMillis == 60000
MaxTicks == 3

\* the peers and addresses offered to the PeerStore, the longest list passed
\* to it, and the calls on it in a run
NumStorePeers == 2
NumAddrs == 2
MaxList == 1
StoreCalls == 3

\* the longest list of boot nodes of a restart, and the number of calls, in
\* the runs about boot nodes
MaxBoot == 2
BootCalls == 3

(* Program constants *)

\* const ROUTE_BACK_CACHE_SIZE: u64 = 100_000
ROUTE_BACK_CACHE_SIZE == 100000
\* const ROUTE_BACK_CACHE_EVICT_TIMEOUT: Duration = Duration::from_millis(120_000)
ROUTE_BACK_CACHE_EVICT_TIMEOUT == 120000
\* const ROUTE_BACK_CACHE_REMOVE_BATCH: u64 = 100
ROUTE_BACK_CACHE_REMOVE_BATCH == 100

\* const ROUND_ROBIN_MAX_NONCE_DIFFERENCE_ALLOWED: usize = 10
ROUND_ROBIN_MAX_NONCE_DIFFERENCE_ALLOWED == 10
PING_PONG_CACHE_SIZE == 1000

\* SizedCache::with_size(10): the pings of one target that wait for a pong
WAITING_PONG_SIZE == 10
ANNOUNCE_ACCOUNT_CACHE_SIZE == 10000

\* pub const MAX_NUM_PEERS: usize = 128
MAX_NUM_PEERS == 128

my_peer_id == 0
Peers == 0..NumPeers

\* an Option: None, or Some(x) holding x
None == << >>
Some(x) == <<x>>

----------------------------------------------------------------------------
(* Vec helpers: a Vec indexed by id is a function on 0..len-1 *)

VecLen(v) == Cardinality(DOMAIN v)

VecPush(v, x) == v @@ (VecLen(v) :> x)

VecOf(x) == 0 :> x

Range(s) == {s[i] : i \in DOMAIN s}

NoDuplicates(s) == \A i, j \in 1..Len(s) : i # j => s[i] # s[j]

Last(s) == s[Len(s)]

Front(s) == SubSeq(s, 1, Len(s) - 1)

\* Vec::retain(|&x| x != y)
Retain(s, y) == SelectSeq(s, LAMBDA x : x # y)

\* HashMap::insert / HashMap::remove
MapInsert(m, k, v) == (k :> v) @@ m

MapRemove(m, k) == [x \in DOMAIN m \ {k} |-> m[x]]

----------------------------------------------------------------------------
(* Graph *)

\* Graph::new(source)
GraphNew(source) ==
    [ my_peer_id         |-> source,
      source_id          |-> 0,
      p2id               |-> source :> 0,
      id2p               |-> VecOf(source),
      used               |-> VecOf(TRUE),
      unused             |-> << >>,
      adjacency          |-> VecOf(<< >>),
      total_active_edges |-> 0 ]

\* Graph::total_active_edges
total_active_edges(g) == g.total_active_edges

\* Loops over an index range lo..hi-1 are unrolled by halving the range: the
\* iterations run in the code's order, and the evaluation nests only
\* logarithmically deep.  Done(x) is TRUE; it makes TLC evaluate the first
\* half of a loop before the second half starts.
Done(x) == x = x

RECURSIVE SumLens(_, _, _)
SumLens(adj, lo, hi) ==
    IF hi <= lo THEN 0
    ELSE IF hi = lo + 1 THEN Len(adj[lo])
    ELSE LET mid == (lo + hi) \div 2
         IN  SumLens(adj, lo, mid) + SumLens(adj, mid, hi)

\* the sum over adjacency of the list lengths, in compute_total_active_edges
adjacency_len_sum(g) == SumLens(g.adjacency, 0, VecLen(g.adjacency))

\* Graph::compute_total_active_edges (its assert_eq!(result % 2, 0) is
\* compute_assert_ok)
compute_assert_ok(g) == adjacency_len_sum(g) % 2 = 0

compute_total_active_edges(g) == adjacency_len_sum(g) \div 2

\* Graph::contains_edge
contains_edge(g, peer0, peer1) ==
    /\ peer0 \in DOMAIN g.p2id
    /\ peer1 \in DOMAIN g.p2id
    /\ g.p2id[peer1] \in Range(g.adjacency[g.p2id[peer0]])

\* the source id is given up like any other
remove_if_unused_any_id(g, id) ==
    IF g.adjacency[id] = << >>
    THEN [g EXCEPT !.used[id] = FALSE,
                   !.unused   = Append(@, id),
                   !.p2id     = MapRemove(@, g.id2p[id])]
    ELSE g

\* Graph::remove_if_unused
remove_if_unused(g, id) ==
    IF g.adjacency[id] = << >> /\ id # g.source_id
    THEN [g EXCEPT !.used[id] = FALSE,
                   !.unused   = Append(@, id),
                   !.p2id     = MapRemove(@, g.id2p[id])]
    ELSE g

\* a popped id keeps the peer it had in id2p
get_id_stale_id2p(g, peer) ==
    IF peer \in DOMAIN g.p2id
    THEN [g |-> g, id |-> g.p2id[peer], ok |-> TRUE]
    ELSE IF g.unused # << >>
         THEN LET val == Last(g.unused)
              IN  [g  |-> [g EXCEPT !.unused    = Front(@),
                                    !.used[val] = TRUE,
                                    !.p2id      = MapInsert(@, peer, val)],
                   id |-> val,
                   ok |-> ~g.used[val] /\ g.adjacency[val] = << >>]
         ELSE LET val == VecLen(g.id2p)
              IN  [g  |-> [g EXCEPT !.id2p      = VecPush(@, peer),
                                    !.used      = VecPush(@, TRUE),
                                    !.adjacency = VecPush(@, << >>),
                                    !.p2id      = MapInsert(@, peer, val)],
                   id |-> val,
                   ok |-> TRUE]

\* every new peer gets a new slot
get_id_always_appends(g, peer) ==
    IF peer \in DOMAIN g.p2id
    THEN [g |-> g, id |-> g.p2id[peer], ok |-> TRUE]
    ELSE LET val == VecLen(g.id2p)
         IN  [g  |-> [g EXCEPT !.id2p      = VecPush(@, peer),
                               !.used      = VecPush(@, TRUE),
                               !.adjacency = VecPush(@, << >>),
                               !.p2id      = MapInsert(@, peer, val)],
              id |-> val,
              ok |-> TRUE]

\* Graph::get_id: the graph after the call and the id returned.  ok is FALSE
\* when one of the two assertions on a popped id fails.
get_id(g, peer) ==
    IF peer \in DOMAIN g.p2id
    THEN [g |-> g, id |-> g.p2id[peer], ok |-> TRUE]
    ELSE IF g.unused # << >>
         THEN LET val == Last(g.unused)
              IN  [g  |-> [g EXCEPT !.unused    = Front(@),
                                    !.id2p[val] = peer,
                                    !.used[val] = TRUE,
                                    !.p2id      = MapInsert(@, peer, val)],
                   id |-> val,
                   ok |-> ~g.used[val] /\ g.adjacency[val] = << >>]
         ELSE LET val == VecLen(g.id2p)
              IN  [g  |-> [g EXCEPT !.id2p      = VecPush(@, peer),
                                    !.used      = VecPush(@, TRUE),
                                    !.adjacency = VecPush(@, << >>),
                                    !.p2id      = MapInsert(@, peer, val)],
                   id |-> val,
                   ok |-> TRUE]

\* add_edge without its contains_edge test
add_edge_unchecked(g, peer0, peer1) ==
    LET r0  == get_id(g, peer0)
        r1  == get_id(r0.g, peer1)
        g1  == [r1.g EXCEPT !.adjacency[r0.id] = Append(@, r1.id)]
        g2  == [g1 EXCEPT !.adjacency[r1.id] = Append(@, r0.id)]
    IN  [g2 EXCEPT !.total_active_edges = @ + 1]

\* Graph::add_edge (peer0 # peer1 is asserted by the code)
add_edge(g, peer0, peer1) ==
    IF ~contains_edge(g, peer0, peer1)
    THEN LET r0  == get_id(g, peer0)
             r1  == get_id(r0.g, peer1)
             id0 == r0.id
             id1 == r1.id
             g1  == [r1.g EXCEPT !.adjacency[id0] = Append(@, id1)]
             g2  == [g1 EXCEPT !.adjacency[id1] = Append(@, id0)]
         IN  [g2 EXCEPT !.total_active_edges = @ + 1]
    ELSE g

\* remove_edge that forgets peer1's adjacency list
remove_edge_one_sided(g, peer0, peer1) ==
    IF contains_edge(g, peer0, peer1)
    THEN LET r0  == get_id(g, peer0)
             r1  == get_id(r0.g, peer1)
             g1  == [r1.g EXCEPT !.adjacency[r0.id] = Retain(@, r1.id)]
             g3  == remove_if_unused(g1, r0.id)
             g4  == remove_if_unused(g3, r1.id)
         IN  [g4 EXCEPT !.total_active_edges = @ - 1]
    ELSE g

\* remove_edge that decrements the counter outside the contains_edge test
remove_edge_always_counts(g, peer0, peer1) ==
    IF contains_edge(g, peer0, peer1)
    THEN LET r0  == get_id(g, peer0)
             r1  == get_id(r0.g, peer1)
             g1  == [r1.g EXCEPT !.adjacency[r0.id] = Retain(@, r1.id)]
             g2  == [g1 EXCEPT !.adjacency[r1.id] = Retain(@, r0.id)]
             g3  == remove_if_unused(g2, r0.id)
             g4  == remove_if_unused(g3, r1.id)
         IN  [g4 EXCEPT !.total_active_edges = @ - 1]
    ELSE [g EXCEPT !.total_active_edges = @ - 1]

\* remove_edge that looks the ids up before its contains_edge test
remove_edge_ids_first(g, peer0, peer1) ==
    LET r0  == get_id(g, peer0)
        r1  == get_id(r0.g, peer1)
    IN  IF contains_edge(g, peer0, peer1)
        THEN LET g1 == [r1.g EXCEPT !.adjacency[r0.id] = Retain(@, r1.id)]
                 g2 == [g1 EXCEPT !.adjacency[r1.id] = Retain(@, r0.id)]
                 g3 == remove_if_unused(g2, r0.id)
                 g4 == remove_if_unused(g3, r1.id)
             IN  [g4 EXCEPT !.total_active_edges = @ - 1]
        ELSE r1.g

\* Graph::remove_edge (peer0 # peer1 is asserted by the code).  The u64
\* counter is kept as an integer: an underflow shows as a negative value.
remove_edge(g, peer0, peer1) ==
    IF contains_edge(g, peer0, peer1)
    THEN LET r0  == get_id(g, peer0)
             r1  == get_id(r0.g, peer1)
             id0 == r0.id
             id1 == r1.id
             g1  == [r1.g EXCEPT !.adjacency[id0] = Retain(@, id1)]
             g2  == [g1 EXCEPT !.adjacency[id1] = Retain(@, id0)]
             g3  == remove_if_unused(g2, id0)
             g4  == remove_if_unused(g3, id1)
         IN  [g4 EXCEPT !.total_active_edges = @ - 1]
    ELSE g

----------------------------------------------------------------------------
(* calculate_distance: the bit-parallel BFS.  st is the record of the local *)
(* variables queue, distance and routes.                                    *)

\* the enumeration without take(MAX_NUM_PEERS)
TakeLen_uncapped(neighbors) == Len(neighbors)

\* neighbors.iter().enumerate().take(MAX_NUM_PEERS): the positions 0..n-1 of
\* the source's adjacency list that are enumerated
TakeLen(neighbors) == IF Len(neighbors) < MAX_NUM_PEERS THEN Len(neighbors) ELSE MAX_NUM_PEERS

\* the seeding step with the bit shifted by one position too many
SeedStep_shifted(neighbors, i, st) ==
    [queue    |-> Append(st.queue, neighbors[i + 1]),
     distance |-> [st.distance EXCEPT ![neighbors[i + 1]] = 1],
     routes   |-> [st.routes EXCEPT ![neighbors[i + 1]] = {i + 1}]]

\* one iteration of the seeding loop, for the neighbour at position i (from 0)
SeedStep(neighbors, i, st) ==
    LET neighbor == neighbors[i + 1]
    IN  [queue    |-> Append(st.queue, neighbor),
         distance |-> [st.distance EXCEPT ![neighbor] = 1],
         routes   |-> [st.routes EXCEPT ![neighbor] = {i}]]

\* the seeding loop, iterations lo..hi-1
RECURSIVE SeedLoop(_, _, _, _)
SeedLoop(neighbors, lo, hi, st) ==
    IF hi <= lo THEN st
    ELSE IF hi = lo + 1 THEN SeedStep(neighbors, lo, st)
    ELSE LET mid   == (lo + hi) \div 2
             first == SeedLoop(neighbors, lo, mid, st)
         IN  IF Done(first) THEN SeedLoop(neighbors, mid, hi, first) ELSE first

\* the visit step that assigns routes instead of or-ing them
VisitStep_overwrite(g, cur_peer, cur_distance, k, st) ==
    LET neighbor == g.adjacency[cur_peer][k]
        fresh    == st.distance[neighbor] = -1
        dist1    == IF fresh
                    THEN [st.distance EXCEPT ![neighbor] = cur_distance + 1]
                    ELSE st.distance
        queue1   == IF fresh THEN Append(st.queue, neighbor) ELSE st.queue
        routes1  == IF dist1[neighbor] = cur_distance + 1
                    THEN [st.routes EXCEPT ![neighbor] = st.routes[cur_peer]]
                    ELSE st.routes
    IN  [queue |-> queue1, distance |-> dist1, routes |-> routes1]

\* the visit step that never pushes a newly reached id on the queue
VisitStep_no_push(g, cur_peer, cur_distance, k, st) ==
    LET neighbor == g.adjacency[cur_peer][k]
        fresh    == st.distance[neighbor] = -1
        dist1    == IF fresh
                    THEN [st.distance EXCEPT ![neighbor] = cur_distance + 1]
                    ELSE st.distance
        routes1  == IF dist1[neighbor] = cur_distance + 1
                    THEN [st.routes EXCEPT ![neighbor] = @ \cup st.routes[cur_peer]]
                    ELSE st.routes
    IN  [queue |-> st.queue, distance |-> dist1, routes |-> routes1]

\* one iteration of "for &neighbor in &self.adjacency[cur_peer]", for the
\* neighbour at position k (from 1)
VisitStep(g, cur_peer, cur_distance, k, st) ==
    LET neighbor == g.adjacency[cur_peer][k]
        fresh    == st.distance[neighbor] = -1
        dist1    == IF fresh
                    THEN [st.distance EXCEPT ![neighbor] = cur_distance + 1]
                    ELSE st.distance
        queue1   == IF fresh THEN Append(st.queue, neighbor) ELSE st.queue
        routes1  == IF dist1[neighbor] = cur_distance + 1
                    THEN [st.routes EXCEPT ![neighbor] = @ \cup st.routes[cur_peer]]
                    ELSE st.routes
    IN  [queue |-> queue1, distance |-> dist1, routes |-> routes1]

\* the inner loop, iterations lo..hi-1 (positions from 1)
RECURSIVE VisitLoop(_, _, _, _, _, _)
VisitLoop(g, cur_peer, cur_distance, lo, hi, st) ==
    IF hi <= lo THEN st
    ELSE IF hi = lo + 1 THEN VisitStep(g, cur_peer, cur_distance, lo, st)
    ELSE LET mid   == (lo + hi) \div 2
             first == VisitLoop(g, cur_peer, cur_distance, lo, mid, st)
         IN  IF Done(first)
             THEN VisitLoop(g, cur_peer, cur_distance, mid, hi, first)
             ELSE first

\* one iteration of "while let Some(cur_peer) = queue.pop_front()"; with the
\* queue empty the loop has ended and nothing changes
BfsStep(g, st) ==
    IF st.queue = << >>
    THEN st
    ELSE LET cur_peer == Head(st.queue)
             popped   == [st EXCEPT !.queue = Tail(@)]
         IN  VisitLoop(g, cur_peer, st.distance[cur_peer],
                       1, Len(g.adjacency[cur_peer]) + 1, popped)

\* n iterations of the while loop
RECURSIVE BfsLoop(_, _, _)
BfsLoop(g, n, st) ==
    IF n <= 0 THEN st
    ELSE IF n = 1 THEN BfsStep(g, st)
    ELSE LET half  == n \div 2
             first == BfsLoop(g, half, st)
         IN  IF Done(first) THEN BfsLoop(g, n - half, first) ELSE first

\* the state of the BFS when calculate_distance calls compute_result.  An id
\* is pushed on the queue at most once (only while its distance is -1), so
\* the while loop ends within `nodes` iterations.
bfs(g) ==
    LET nodes     == VecLen(g.id2p)
        neighbors == g.adjacency[g.source_id]
        st0       == [queue    |-> << >>,
                      distance |-> [i \in 0..(nodes - 1) |-> IF i = g.source_id THEN 0 ELSE -1],
                      routes   |-> [i \in 0..(nodes - 1) |-> {}]]
    IN  BfsLoop(g, nodes, SeedLoop(neighbors, 0, TakeLen(neighbors), st0))

\* the inner loop of compute_result, iterations lo..hi-1: the peers of the
\* enumerated source neighbours whose bit is set in cur_route, in
\* enumeration order
RECURSIVE PeerSet(_, _, _, _, _)
PeerSet(g, neighbors, cur_route, lo, hi) ==
    IF hi <= lo THEN << >>
    ELSE IF hi = lo + 1
         THEN (IF lo \in cur_route THEN <<g.id2p[neighbors[lo + 1]]>> ELSE << >>)
    ELSE LET mid == (lo + hi) \div 2
         IN  PeerSet(g, neighbors, cur_route, lo, mid)
             \o PeerSet(g, neighbors, cur_route, mid, hi)

\* the ids for which compute_result inserts an entry (the others "continue")
result_keys(g, routes, distance) ==
    {key \in DOMAIN routes :
        ~(\/ key = g.source_id
          \/ distance[key] = -1
          \/ routes[key] = {}
          \/ ~g.used[key])}

\* compute_result that lists the next hops from the highest bit down
compute_result_reversed(g, routes, distance) ==
    LET neighbors == g.adjacency[g.source_id]
        keys      == result_keys(g, routes, distance)
        Rev(q)    == [i \in 1..Len(q) |-> q[Len(q) + 1 - i]]
    IN  [p \in {g.id2p[key] : key \in keys} |->
            LET key == CHOOSE k \in keys : g.id2p[k] = p
            IN  Rev(PeerSet(g, neighbors, routes[key], 0, TakeLen(neighbors)))]

\* Graph::compute_result: a HashMap from PeerId to Vec<PeerId>
compute_result(g, routes, distance) ==
    LET neighbors == g.adjacency[g.source_id]
        keys      == result_keys(g, routes, distance)
    IN  [p \in {g.id2p[key] : key \in keys} |->
            LET key == CHOOSE k \in keys : g.id2p[k] = p
            IN  PeerSet(g, neighbors, routes[key], 0, TakeLen(neighbors))]

\* Graph::calculate_distance
calculate_distance(g) ==
    LET st == bfs(g)
    IN  compute_result(g, st.routes, st.distance)

----------------------------------------------------------------------------
(* RoutingTableView: find_route on a PeerId target *)

EmptyMap == << >>

\* Result<PeerId, FindRouteError>
Ok(peer) == [ok |-> TRUE, peer |-> peer, err |-> "none"]
Err(kind) == [ok |-> FALSE, peer |-> 0, err |-> kind]
\* a bool, as the return value that last_call records
Bool(b) == [ok |-> b, peer |-> 0, err |-> "none"]

\* SizedCache::cache_get(key).cloned(): Some(value) or None.  The order of
\* use that the cache keeps decides only which key is evicted at capacity,
\* and the runs never hold ROUND_ROBIN_NONCE_CACHE_SIZE (10,000) keys.
cache_get(cache, key) == IF key \in DOMAIN cache THEN Some(cache[key]) ELSE None

\* SizedCache::cache_set(key, value), below capacity
cache_set(cache, key, value) == MapInsert(cache, key, value)

\* Option::unwrap_or
unwrap_or(opt, default) == IF opt = None THEN default ELSE opt[1]

\* the counter of a peer: an absent counter counts as 0
CounterOf(cache, peer) == IF peer \in DOMAIN cache THEN cache[peer] ELSE 0

\* the order of the tuples (usize, &PeerId)
TupleLess(x, y) == x[1] < y[1] \/ (x[1] = y[1] /\ x[2] < y[2])

\* the Vec nonce_peer of find_route_from_peer_id
nonce_peer(routes, cache) ==
    [i \in 1..Len(routes) |-> <<unwrap_or(cache_get(cache, routes[i]), 0), routes[i]>>]

\* min_by_key on the counter alone: the first candidate with the least counter
min_v_by_counter(routes, cache) ==
    LET np == nonce_peer(routes, cache)
        i  == CHOOSE k \in 1..Len(np) :
                /\ \A j \in 1..Len(np) : np[k][1] <= np[j][1]
                /\ \A j \in 1..(k - 1) : np[j][1] > np[k][1]
    IN  np[i]

\* max() where min() was meant
min_v_largest(routes, cache) ==
    LET np == Range(nonce_peer(routes, cache))
    IN  CHOOSE x \in np : \A y \in np : ~TupleLess(x, y)

\* nonce_peer.iter().min() and nonce_peer.into_iter().max()
min_v(routes, cache) ==
    LET np == Range(nonce_peer(routes, cache))
    IN  CHOOSE x \in np : \A y \in np : ~TupleLess(y, x)

max_v(routes, cache) ==
    LET np == Range(nonce_peer(routes, cache))
    IN  CHOOSE x \in np : \A y \in np : ~TupleLess(x, y)

\* the two errors exchanged
find_route_from_peer_id_errors_swapped(forwarding, cache, peer_id) ==
    IF peer_id \in DOMAIN forwarding
    THEN LET routes == forwarding[peer_id]
         IN  IF routes = << >>
             THEN [ret |-> Err("PeerNotFound"), route_nonce |-> cache]
             ELSE LET lo       == min_v(routes, cache)
                      hi       == max_v(routes, cache)
                      clamped  == IF lo[1] + ROUND_ROBIN_MAX_NONCE_DIFFERENCE_ALLOWED < hi[1]
                                  THEN cache_set(cache, lo[2],
                                           hi[1] - ROUND_ROBIN_MAX_NONCE_DIFFERENCE_ALLOWED)
                                  ELSE cache
                      next_hop == lo[2]
                      nonce    == cache_get(clamped, next_hop)
                  IN  [ret         |-> Ok(next_hop),
                       route_nonce |-> cache_set(clamped, next_hop,
                                           IF nonce = None THEN 1 ELSE nonce[1] + 1)]
    ELSE [ret |-> Err("Disconnected"), route_nonce |-> cache]

\* the counter of the selected peer is incremented without being raised first
find_route_from_peer_id_no_clamp(forwarding, cache, peer_id) ==
    IF peer_id \in DOMAIN forwarding
    THEN LET routes == forwarding[peer_id]
         IN  IF routes = << >>
             THEN [ret |-> Err("Disconnected"), route_nonce |-> cache]
             ELSE LET lo       == min_v(routes, cache)
                      next_hop == lo[2]
                      nonce    == cache_get(cache, next_hop)
                  IN  [ret         |-> Ok(next_hop),
                       route_nonce |-> cache_set(cache, next_hop,
                                           IF nonce = None THEN 1 ELSE nonce[1] + 1)]
    ELSE [ret |-> Err("PeerNotFound"), route_nonce |-> cache]

\* RoutingTableView::find_route_from_peer_id: the value returned and
\* route_nonce after the call
find_route_from_peer_id(forwarding, cache, peer_id) ==
    IF peer_id \in DOMAIN forwarding
    THEN LET routes == forwarding[peer_id]
         IN  IF routes = << >>
             THEN [ret |-> Err("Disconnected"), route_nonce |-> cache]
             ELSE LET lo       == min_v(routes, cache)
                      hi       == max_v(routes, cache)
                      clamped  == IF lo[1] + ROUND_ROBIN_MAX_NONCE_DIFFERENCE_ALLOWED < hi[1]
                                  THEN cache_set(cache, lo[2],
                                           hi[1] - ROUND_ROBIN_MAX_NONCE_DIFFERENCE_ALLOWED)
                                  ELSE cache
                      next_hop == lo[2]
                      nonce    == cache_get(clamped, next_hop)
                  IN  [ret         |-> Ok(next_hop),
                       route_nonce |-> cache_set(clamped, next_hop,
                                           IF nonce = None THEN 1 ELSE nonce[1] + 1)]
    ELSE [ret |-> Err("PeerNotFound"), route_nonce |-> cache]

----------------------------------------------------------------------------
(* RouteBackCache: a bounded map CryptoHash -> PeerId with insertion times. *)
(* On every mutating call it evicts the entries older than the timeout and  *)
(* then, if it is at capacity, the oldest batch.                            *)

\* the entries no older than ROUTE_BACK_CACHE_EVICT_TIMEOUT at time t
evict_expired(cache, t) ==
    [h \in {k \in DOMAIN cache : t - cache[k].at <= ROUTE_BACK_CACHE_EVICT_TIMEOUT}
        |-> cache[h]]

\* entry h is older than entry k: by insertion time, then by hash
Older(cache, h, k) ==
    cache[h].at < cache[k].at \/ (cache[h].at = cache[k].at /\ h < k)

\* at capacity, the ROUTE_BACK_CACHE_REMOVE_BATCH oldest entries go
evict_oldest(cache) ==
    IF Cardinality(DOMAIN cache) >= ROUTE_BACK_CACHE_SIZE
    THEN [h \in {k \in DOMAIN cache :
                   Cardinality({j \in DOMAIN cache : Older(cache, j, k)})
                       >= ROUTE_BACK_CACHE_REMOVE_BATCH}
            |-> cache[h]]
    ELSE cache

remove_evicted(cache, t) == evict_oldest(evict_expired(cache, t))

\* RouteBackCache::insert: false, and no overwrite, if the key exists
RouteBackInsert(cache, t, hash, peer_id) ==
    LET kept == remove_evicted(cache, t)
    IN  IF hash \in DOMAIN kept
        THEN [cache |-> kept, ret |-> FALSE]
        ELSE [cache |-> MapInsert(kept, hash, [peer |-> peer_id, at |-> t]), ret |-> TRUE]

\* RouteBackCache::remove: returns the PeerId and deletes the entry
RouteBackRemove(cache, t, hash) ==
    LET kept == remove_evicted(cache, t)
    IN  IF hash \in DOMAIN kept
        THEN [cache |-> MapRemove(kept, hash), ret |-> Some(kept[hash].peer)]
        ELSE [cache |-> kept, ret |-> None]

\* RouteBackCache::get: non-destructive
RouteBackGet(cache, t, hash) ==
    IF hash \in DOMAIN cache
    THEN [cache |-> cache, ret |-> Some(cache[hash].peer)]
    ELSE [cache |-> cache, ret |-> None]

\* RoutingTableView::add_route_back
add_route_back(cache, t, hash, peer_id) == RouteBackInsert(cache, t, hash, peer_id)

\* a lookup that leaves the entry in the cache
fetch_route_back_peek(cache, t, hash) == RouteBackGet(cache, t, hash)

\* RoutingTableView::fetch_route_back
fetch_route_back(cache, t, hash) == RouteBackRemove(cache, t, hash)

\* RoutingTableView::compare_route_back
compare_route_back(cache, t, hash, peer_id) ==
    LET r == RouteBackGet(cache, t, hash)
    IN  [cache |-> r.cache, ret |-> IF r.ret = None THEN FALSE ELSE r.ret[1] = peer_id]

\* Option::ok_or(FindRouteError::RouteBackNotFound)
ok_or(opt, kind) == IF opt = None THEN Err(kind) ELSE Ok(opt[1])

\* RoutingTableView::find_route on a Hash target
find_route_from_hash(cache, t, hash) ==
    LET r == fetch_route_back(cache, t, hash)
    IN  [cache |-> r.cache, ret |-> ok_or(r.ret, "RouteBackNotFound")]

----------------------------------------------------------------------------
(* PeerStore: the known peers, the reverse index from address to peer, and  *)
(* the persisted column ColPeers.  A PeerInfo is its id and its address     *)
(* (account_id takes no part in the store); timestamps are clock readings.  *)

PeerInfo(id, addr) == [id |-> id, addr |-> addr]

\* KnownPeerStatus
Unknown == [kind |-> "Unknown", reason |-> "none", at |-> 0]
NotConnected == [kind |-> "NotConnected", reason |-> "none", at |-> 0]
Connected == [kind |-> "Connected", reason |-> "none", at |-> 0]
Banned(reason, t) == [kind |-> "Banned", reason |-> reason, at |-> t]
is_banned(status) == status.kind = "Banned"

\* KnownPeerState::new(peer_info, now)
KnownPeerStateNew(peer_info, t) ==
    [peer_info |-> peer_info, status |-> Unknown, first_seen |-> t, last_seen |-> t]

\* VerifiedPeer
VerifiedPeer(peer_id, trust_level) == [peer_id |-> peer_id, trust_level |-> trust_level]
VerifiedPeerNew(peer_id) == VerifiedPeer(peer_id, "Indirect")
VerifiedPeerSigned(peer_id) == VerifiedPeer(peer_id, "Signed")

\* Result<(), Box<dyn Error>>
OkUnit == Ok(0)

\* PeerStore::save_to_db: set_ser on ColPeers and commit
save_to_db(store, peer_id, peer_state) == MapInsert(store, peer_id, peer_state)

\* PeerStore::touch
touch(ps, peer_id) ==
    IF peer_id \in DOMAIN ps.peer_states
    THEN [ps EXCEPT !.store = save_to_db(ps.store, peer_id, ps.peer_states[peer_id])]
    ELSE ps

\* peer_state.peer_info.addr = addr
WithAddr(peer_state, addr) == [peer_state EXCEPT !.peer_info.addr = addr]

\* the peer that held the address keeps it in its state
update_peer_info_keeps_other(ps, peer_info, peer_addr, trust_level, t) ==
    LET known       == peer_info.id \in DOMAIN ps.peer_states
        cur_addr    == IF known THEN ps.peer_states[peer_info.id].peer_info.addr ELSE None
        addr_peers2 == IF cur_addr # None THEN MapRemove(ps.addr_peers, cur_addr[1])
                       ELSE ps.addr_peers
        addr_peers3 == MapInsert(addr_peers2, peer_addr,
                                 VerifiedPeer(peer_info.id, trust_level))
        states3     == IF known
                       THEN MapInsert(ps.peer_states, peer_info.id,
                                      WithAddr(ps.peer_states[peer_info.id], Some(peer_addr)))
                       ELSE MapInsert(ps.peer_states, peer_info.id,
                                      KnownPeerStateNew(peer_info, t))
    IN  touch([ps EXCEPT !.peer_states = states3, !.addr_peers = addr_peers3],
              peer_info.id)

\* the peer that lost the address is not written to the column
update_peer_info_touches_one(ps, peer_info, peer_addr, trust_level, t) ==
    LET \* the peer associated with the address loses it
        held        == peer_addr \in DOMAIN ps.addr_peers
        other       == ps.addr_peers[peer_addr].peer_id
        other_known == held /\ other \in DOMAIN ps.peer_states
        addr_peers1 == IF held THEN MapRemove(ps.addr_peers, peer_addr) ELSE ps.addr_peers
        states1     == IF other_known
                       THEN MapInsert(ps.peer_states, other,
                                      WithAddr(ps.peer_states[other], None))
                       ELSE ps.peer_states
        \* the pair of the address this peer already has leaves the index
        known       == peer_info.id \in DOMAIN states1
        cur_addr    == IF known THEN states1[peer_info.id].peer_info.addr ELSE None
        states2     == IF known
                       THEN MapInsert(states1, peer_info.id,
                                      WithAddr(states1[peer_info.id], None))
                       ELSE states1
        addr_peers2 == IF cur_addr # None THEN MapRemove(addr_peers1, cur_addr[1])
                       ELSE addr_peers1
        \* the new pair
        addr_peers3 == MapInsert(addr_peers2, peer_addr,
                                 VerifiedPeer(peer_info.id, trust_level))
        states3     == IF known
                       THEN MapInsert(states2, peer_info.id,
                                      WithAddr(states2[peer_info.id], Some(peer_addr)))
                       ELSE MapInsert(states2, peer_info.id,
                                      KnownPeerStateNew(peer_info, t))
        ps3         == [ps EXCEPT !.peer_states = states3, !.addr_peers = addr_peers3]
        ps4         == touch(ps3, peer_info.id)
    IN  ps4

\* PeerStore::update_peer_info
update_peer_info(ps, peer_info, peer_addr, trust_level, t) ==
    LET \* the peer associated with the address loses it
        held        == peer_addr \in DOMAIN ps.addr_peers
        other       == ps.addr_peers[peer_addr].peer_id
        other_known == held /\ other \in DOMAIN ps.peer_states
        addr_peers1 == IF held THEN MapRemove(ps.addr_peers, peer_addr) ELSE ps.addr_peers
        states1     == IF other_known
                       THEN MapInsert(ps.peer_states, other,
                                      WithAddr(ps.peer_states[other], None))
                       ELSE ps.peer_states
        touch_other == IF other_known
                       THEN Some(ps.peer_states[other].peer_info.id) ELSE None
        \* the pair of the address this peer already has leaves the index
        known       == peer_info.id \in DOMAIN states1
        cur_addr    == IF known THEN states1[peer_info.id].peer_info.addr ELSE None
        states2     == IF known
                       THEN MapInsert(states1, peer_info.id,
                                      WithAddr(states1[peer_info.id], None))
                       ELSE states1
        addr_peers2 == IF cur_addr # None THEN MapRemove(addr_peers1, cur_addr[1])
                       ELSE addr_peers1
        \* the new pair
        addr_peers3 == MapInsert(addr_peers2, peer_addr,
                                 VerifiedPeer(peer_info.id, trust_level))
        states3     == IF known
                       THEN MapInsert(states2, peer_info.id,
                                      WithAddr(states2[peer_info.id], Some(peer_addr)))
                       ELSE MapInsert(states2, peer_info.id,
                                      KnownPeerStateNew(peer_info, t))
        ps3         == [ps EXCEPT !.peer_states = states3, !.addr_peers = addr_peers3]
        ps4         == touch(ps3, peer_info.id)
    IN  IF touch_other # None THEN touch(ps4, touch_other[1]) ELSE ps4

\* the Direct branch without the test for a signed binding
add_peer_unguarded(ps, peer_info, trust_level, t) ==
    IF peer_info.addr # None
    THEN LET peer_addr == peer_info.addr[1]
         IN  IF trust_level = "Indirect"
             THEN IF /\ peer_info.id \notin DOMAIN ps.peer_states
                     /\ peer_addr \notin DOMAIN ps.addr_peers
                  THEN update_peer_info(ps, peer_info, peer_addr, "Indirect", t)
                  ELSE ps
             ELSE update_peer_info(ps, peer_info, peer_addr, trust_level, t)
    ELSE IF peer_info.id \notin DOMAIN ps.peer_states
         THEN [ps EXCEPT !.peer_states =
                  MapInsert(@, peer_info.id, KnownPeerStateNew(peer_info, t))]
         ELSE ps

\* the Indirect branch installing whenever the address is free
add_peer_indirect_by_addr(ps, peer_info, trust_level, t) ==
    IF peer_info.addr # None
    THEN LET peer_addr == peer_info.addr[1]
             is_peer_trusted ==
                 /\ peer_info.id \in DOMAIN ps.peer_states
                 /\ ps.peer_states[peer_info.id].peer_info.addr # None
                 /\ LET current_addr == ps.peer_states[peer_info.id].peer_info.addr[1]
                    IN  /\ current_addr \in DOMAIN ps.addr_peers
                        /\ ps.addr_peers[current_addr].trust_level = "Signed"
         IN  CASE trust_level = "Signed" ->
                    update_peer_info(ps, peer_info, peer_addr, "Signed", t)
               [] trust_level = "Direct" ->
                    IF is_peer_trusted THEN ps
                    ELSE update_peer_info(ps, peer_info, peer_addr, "Direct", t)
               [] trust_level = "Indirect" ->
                    IF peer_addr \notin DOMAIN ps.addr_peers
                    THEN update_peer_info(ps, peer_info, peer_addr, "Indirect", t)
                    ELSE ps
    ELSE IF peer_info.id \notin DOMAIN ps.peer_states
         THEN [ps EXCEPT !.peer_states =
                  MapInsert(@, peer_info.id, KnownPeerStateNew(peer_info, t))]
         ELSE ps

\* PeerStore::add_peer (it returns Ok(()) on every path)
add_peer(ps, peer_info, trust_level, t) ==
    IF peer_info.addr # None
    THEN LET peer_addr == peer_info.addr[1]
             is_peer_trusted ==
                 /\ peer_info.id \in DOMAIN ps.peer_states
                 /\ ps.peer_states[peer_info.id].peer_info.addr # None
                 /\ LET current_addr == ps.peer_states[peer_info.id].peer_info.addr[1]
                    IN  /\ current_addr \in DOMAIN ps.addr_peers
                        /\ ps.addr_peers[current_addr].trust_level = "Signed"
         IN  CASE trust_level = "Signed" ->
                    update_peer_info(ps, peer_info, peer_addr, "Signed", t)
               [] trust_level = "Direct" ->
                    IF is_peer_trusted THEN ps
                    ELSE update_peer_info(ps, peer_info, peer_addr, "Direct", t)
               [] trust_level = "Indirect" ->
                    IF /\ peer_info.id \notin DOMAIN ps.peer_states
                       /\ peer_addr \notin DOMAIN ps.addr_peers
                    THEN update_peer_info(ps, peer_info, peer_addr, "Indirect", t)
                    ELSE ps
    ELSE IF peer_info.id \notin DOMAIN ps.peer_states
         THEN [ps EXCEPT !.peer_states =
                  MapInsert(@, peer_info.id, KnownPeerStateNew(peer_info, t))]
         ELSE ps

\* PeerStore::add_indirect_peers
RECURSIVE add_indirect_peers(_, _, _)
add_indirect_peers(ps, peers, t) ==
    IF peers = << >> THEN ps
    ELSE add_indirect_peers(add_peer(ps, Head(peers), "Indirect", t), Tail(peers), t)

\* PeerStore::add_trusted_peer
add_trusted_peer(ps, peer_info, trust_level, t) == add_peer(ps, peer_info, trust_level, t)

\* the status written without the upsert at Signed
peer_connected_no_upsert(ps, peer_info, t) ==
    LET ps1   == add_peer(ps, peer_info, "Indirect", t)
        entry == [ps1.peer_states[peer_info.id] EXCEPT
                     !.last_seen = t, !.status = Connected]
    IN  [ps1 EXCEPT !.peer_states = MapInsert(@, peer_info.id, entry),
                    !.store = save_to_db(@, peer_info.id, entry)]

\* PeerStore::peer_connected
peer_connected(ps, peer_info, t) ==
    LET ps1   == add_trusted_peer(ps, peer_info, "Signed", t)
        entry == [ps1.peer_states[peer_info.id] EXCEPT
                     !.last_seen = t, !.status = Connected]
    IN  [ps1 EXCEPT !.peer_states = MapInsert(@, peer_info.id, entry),
                    !.store = save_to_db(@, peer_info.id, entry)]

\* the status of a known peer replaced and written through, or the error
SetStatus(ps, peer_id, peer_state) ==
    [ps EXCEPT !.peer_states = MapInsert(@, peer_id, peer_state),
               !.store = save_to_db(@, peer_id, peer_state)]

\* an unknown peer is written to the column all the same
peer_disconnected_upsert(ps, peer_id, t) ==
    IF peer_id \in DOMAIN ps.peer_states
    THEN [ps  |-> SetStatus(ps, peer_id, [ps.peer_states[peer_id] EXCEPT
                                             !.last_seen = t, !.status = NotConnected]),
          ret |-> OkUnit]
    ELSE [ps  |-> [ps EXCEPT !.store = save_to_db(@, peer_id,
                      [KnownPeerStateNew(PeerInfo(peer_id, None), t) EXCEPT
                          !.status = NotConnected])],
          ret |-> Err("PeerMissing")]

\* PeerStore::peer_disconnected
peer_disconnected(ps, peer_id, t) ==
    IF peer_id \in DOMAIN ps.peer_states
    THEN [ps  |-> SetStatus(ps, peer_id, [ps.peer_states[peer_id] EXCEPT
                                             !.last_seen = t, !.status = NotConnected]),
          ret |-> OkUnit]
    ELSE [ps |-> ps, ret |-> Err("PeerMissing")]

\* PeerStore::peer_ban
peer_ban(ps, peer_id, ban_reason, t) ==
    IF peer_id \in DOMAIN ps.peer_states
    THEN [ps  |-> SetStatus(ps, peer_id, [ps.peer_states[peer_id] EXCEPT
                                             !.last_seen = t,
                                             !.status = Banned(ban_reason, t)]),
          ret |-> OkUnit]
    ELSE [ps |-> ps, ret |-> Err("PeerMissing")]

\* PeerStore::peer_unban
peer_unban(ps, peer_id) ==
    IF peer_id \in DOMAIN ps.peer_states
    THEN [ps  |-> SetStatus(ps, peer_id, [ps.peer_states[peer_id] EXCEPT
                                             !.status = NotConnected]),
          ret |-> OkUnit]
    ELSE [ps |-> ps, ret |-> Err("PeerMissing")]

\* PeerStore::find_peers: the Vecs that choose_multiple may return for the
\* peers passing the filter, each as the set of its elements (their order
\* is random as well)
find_peers(ps, passing, count) ==
    LET n == IF count < Cardinality(passing) THEN count ELSE Cardinality(passing)
    IN  {{ps.peer_states[id].peer_info : id \in picked} :
            picked \in {q \in SUBSET passing : Cardinality(q) = n}}

\* the filter of unconnected_peer; ignore_fn is true of the peers in ignored
unconnected_filter(ps, ignored) ==
    {id \in DOMAIN ps.peer_states :
        /\ (ps.peer_states[id].status = NotConnected \/ ps.peer_states[id].status = Unknown)
        /\ id \notin ignored
        /\ ps.peer_states[id].peer_info.addr # None}

\* a filter that lets peers without an address through
unconnected_peer_any_addr(ps, ignored) ==
    LET found == find_peers(ps,
                    {id \in DOMAIN ps.peer_states :
                        /\ (ps.peer_states[id].status = NotConnected
                              \/ ps.peer_states[id].status = Unknown)
                        /\ id \notin ignored}, 1)
    IN  {IF v = {} THEN None ELSE Some(CHOOSE x \in v : TRUE) : v \in found}

\* PeerStore::unconnected_peer: the values it may return
unconnected_peer(ps, ignored) ==
    LET found == find_peers(ps, unconnected_filter(ps, ignored), 1)
    IN  {IF v = {} THEN None ELSE Some(CHOOSE x \in v : TRUE) : v \in found}

\* PeerStore::healthy_peers: the values it may return
healthy_peers(ps, max_count) ==
    find_peers(ps, {id \in DOMAIN ps.peer_states : ~is_banned(ps.peer_states[id].status)},
               max_count)

\* the status is not looked at
to_remove_any_status(ps, peer_expiration_duration, t) ==
    {peer_id \in DOMAIN ps.peer_states :
        t - ps.peer_states[peer_id].last_seen > peer_expiration_duration}

\* the peers that remove_expired collects
to_remove(ps, peer_expiration_duration, t) ==
    {peer_id \in DOMAIN ps.peer_states :
        /\ ps.peer_states[peer_id].status # Connected
        /\ t - ps.peer_states[peer_id].last_seen > peer_expiration_duration}

\* PeerStore::remove_expired
remove_expired(ps, peer_expiration_duration, t) ==
    LET gone == to_remove(ps, peer_expiration_duration, t)
    IN  [ps EXCEPT
            !.peer_states = [id \in DOMAIN ps.peer_states \ gone |-> ps.peer_states[id]],
            !.store = [id \in DOMAIN ps.store \ gone |-> ps.store[id]]]

\* PeerStore::new, the boot nodes: each one unique by id and address is
\* installed at Signed
RECURSIVE LoadBootNodes(_, _, _)
LoadBootNodes(ps, boot_nodes, t) ==
    IF boot_nodes = << >> THEN ps
    ELSE LET peer_info == Head(boot_nodes)
             next ==
                 IF /\ peer_info.id \notin DOMAIN ps.peer_states
                    /\ peer_info.addr # None
                    /\ peer_info.addr[1] \notin DOMAIN ps.addr_peers
                 THEN [ps EXCEPT
                          !.addr_peers = MapInsert(@, peer_info.addr[1],
                                                   VerifiedPeerSigned(peer_info.id)),
                          !.peer_states = MapInsert(@, peer_info.id,
                                                    KnownPeerStateNew(peer_info, t))]
                 ELSE ps
         IN  LoadBootNodes(next, Tail(boot_nodes), t)

\* a persisted peer takes its address over from whoever holds it
RECURSIVE LoadStored_takes_addr(_, _, _)
LoadStored_takes_addr(ps, keys, t) ==
    IF keys = {} THEN ps
    ELSE LET peer_id == CHOOSE k \in keys : \A j \in keys : k <= j
             stored  == ps.store[peer_id]
             peer_state ==
                 [peer_info  |-> stored.peer_info,
                  first_seen |-> stored.first_seen,
                  last_seen  |-> t,
                  status     |-> IF is_banned(stored.status) THEN stored.status
                                 ELSE NotConnected]
             next ==
                 IF peer_id \in DOMAIN ps.peer_states
                 THEN IF is_banned(peer_state.status)
                      THEN [ps EXCEPT !.peer_states[peer_id].status = peer_state.status]
                      ELSE ps
                 ELSE IF peer_state.peer_info.addr # None
                      THEN [ps EXCEPT
                               !.addr_peers = MapInsert(@, peer_state.peer_info.addr[1],
                                                  VerifiedPeerNew(peer_state.peer_info.id)),
                               !.peer_states = MapInsert(@, peer_id, peer_state)]
                      ELSE ps
         IN  LoadStored_takes_addr(next, keys \ {peer_id}, t)

\* the persisted status is reset for every peer, banned or not
RECURSIVE LoadStored_forgets_ban(_, _, _)
LoadStored_forgets_ban(ps, keys, t) ==
    IF keys = {} THEN ps
    ELSE LET peer_id == CHOOSE k \in keys : \A j \in keys : k <= j
             stored  == ps.store[peer_id]
             peer_state ==
                 [peer_info  |-> stored.peer_info,
                  first_seen |-> stored.first_seen,
                  last_seen  |-> t,
                  status     |-> NotConnected]
             next ==
                 IF peer_id \in DOMAIN ps.peer_states
                 THEN ps
                 ELSE IF /\ peer_state.peer_info.addr # None
                         /\ peer_state.peer_info.addr[1] \notin DOMAIN ps.addr_peers
                      THEN [ps EXCEPT
                               !.addr_peers = MapInsert(@, peer_state.peer_info.addr[1],
                                                  VerifiedPeerNew(peer_state.peer_info.id)),
                               !.peer_states = MapInsert(@, peer_id, peer_state)]
                      ELSE ps
         IN  LoadStored_forgets_ban(next, keys \ {peer_id}, t)

\* PeerStore::new, the persisted peers, in the order of their keys
RECURSIVE LoadStored(_, _, _)
LoadStored(ps, keys, t) ==
    IF keys = {} THEN ps
    ELSE LET peer_id == CHOOSE k \in keys : \A j \in keys : k <= j
             stored  == ps.store[peer_id]
             peer_state ==
                 [peer_info  |-> stored.peer_info,
                  first_seen |-> stored.first_seen,
                  last_seen  |-> t,
                  status     |-> IF is_banned(stored.status) THEN stored.status
                                 ELSE NotConnected]
             next ==
                 IF peer_id \in DOMAIN ps.peer_states
                 THEN IF is_banned(peer_state.status)
                      THEN [ps EXCEPT !.peer_states[peer_id].status = peer_state.status]
                      ELSE ps
                 ELSE IF /\ peer_state.peer_info.addr # None
                         /\ peer_state.peer_info.addr[1] \notin DOMAIN ps.addr_peers
                      THEN [ps EXCEPT
                               !.addr_peers = MapInsert(@, peer_state.peer_info.addr[1],
                                                  VerifiedPeerNew(peer_state.peer_info.id)),
                               !.peer_states = MapInsert(@, peer_id, peer_state)]
                      ELSE ps
         IN  LoadStored(next, keys \ {peer_id}, t)

\* PeerStore::new
PeerStoreNew(store, boot_nodes, t) ==
    LET empty == [store |-> store, peer_states |-> EmptyMap, addr_peers |-> EmptyMap]
    IN  LoadStored(LoadBootNodes(empty, boot_nodes, t), DOMAIN store, t)

----------------------------------------------------------------------------
(* The routing table's callers *)

\* the peers listed as next hops, and the peer that messages are routed to
RoutePeers == 1..NumHops
RouteTarget == NumHops + 1

\* the next-hop lists of a forwarding table: the peers in any order
RouteLists ==
    {q \in UNION {[1..n -> RoutePeers] : n \in 0..NumHops} : NoDuplicates(q)}

\* the counters a run starts from: none, or one left by earlier calls
StartNonces ==
    {1, ROUND_ROBIN_MAX_NONCE_DIFFERENCE_ALLOWED,
     ROUND_ROBIN_MAX_NONCE_DIFFERENCE_ALLOWED + 1,
     2 * ROUND_ROBIN_MAX_NONCE_DIFFERENCE_ALLOWED}

NoCall == [op |-> "new", target |-> 0, ret |-> Err("none")]

----------------------------------------------------------------------------
(* SizedCache: a map of bounded size that evicts the least recently used   *)
(* key.  The cache is the sequence of its entries from the least to the    *)
(* most recently used; an entry with run = n stands for n entries in a row *)
(* under n distinct keys that no caller of the model names.                *)

LruEmpty == << >>

LruEntry(key, value) == [key |-> key, value |-> value, run |-> 1]

RECURSIVE LruSize(_)
LruSize(c) == IF c = << >> THEN 0 ELSE Head(c).run + LruSize(Tail(c))

LruKeys(c) == {c[i].key : i \in {j \in DOMAIN c : c[j].run = 1}}

LruValue(c, key) ==
    LET i == CHOOSE j \in DOMAIN c : c[j].run = 1 /\ c[j].key = key
    IN  c[i].value

LruWithout(c, key) == SelectSeq(c, LAMBDA x : ~(x.run = 1 /\ x.key = key))

LruDropOldest(c) ==
    IF Head(c).run > 1 THEN [c EXCEPT ![1].run = @ - 1] ELSE Tail(c)

\* SizedCache::cache_get / cache_get_mut: the value, and the cache with the
\* key moved to the most recently used end
lru_get(c, key) ==
    IF key \in LruKeys(c)
    THEN [value |-> Some(LruValue(c, key)),
          cache |-> Append(LruWithout(c, key), LruEntry(key, LruValue(c, key)))]
    ELSE [value |-> None, cache |-> c]

\* SizedCache::cache_set: insert or replace as the most recently used, and
\* evict the least recently used entry when the size passes the capacity
lru_set(c, key, value, capacity) ==
    LET d == Append(LruWithout(c, key), LruEntry(key, value))
    IN  IF LruSize(d) > capacity THEN LruDropOldest(d) ELSE d

----------------------------------------------------------------------------
(* Edge, EdgeInfo and EdgeInner *)

\* u64: the nonce of an edge.  The model keeps the type NonceBits wide, so
\* that the largest value and the additions that pass it are within reach.
MaxU64 == 2^NonceBits - 1

\* n + k on u64.  Past the largest value the addition panics in a build with
\* overflow checks and wraps around in a build without them.
AddU64(n, k) ==
    IF n + k <= MaxU64
    THEN {Ok(n + k)}
    ELSE {Err("panic"), Ok((n + k) % (MaxU64 + 1))}

\* PeerId::public_key, and the secret key that belongs to it: a key pair is
\* named by its peer
public_key(peer) == peer
SecretKeyOf(peer) == peer

\* SecretKey::sign and Signature::verify: a signature verifies against the
\* public key of the signer and the signed data, and against nothing else
sign(secret_key, data) == [signer |-> secret_key, data |-> data]
signature_verify(signature, data, pk) ==
    signature.signer = pk /\ signature.data = data

\* Signature::empty: verifies against no key
EmptySignature == [signer |-> 0 - 1, data |-> <<0, 0, 0>>]

\* Edge::build_hash: hash_borsh of (peer0, peer1, nonce), taken as free of
\* collisions
build_hash(peer0, peer1, nonce) == <<peer0, peer1, nonce>>

\* EdgeInfo::new
EdgeInfoNew(peer0, peer1, nonce, secret_key) ==
    LET data == IF peer0 < peer1
                THEN build_hash(peer0, peer1, nonce)
                ELSE build_hash(peer1, peer0, nonce)
    IN  [nonce |-> nonce, signature |-> sign(secret_key, data)]

\* the peers are put in order and the signatures stay where they were
EdgeInnerNew_no_swap(peer0, peer1, nonce, signature0, signature1) ==
    [key |-> IF peer0 < peer1 THEN <<peer0, peer1>> ELSE <<peer1, peer0>>,
     nonce |-> nonce,
     signature0 |-> signature0,
     signature1 |-> signature1,
     removal_info |-> None]

\* EdgeInner::new, which Edge::new wraps
EdgeInnerNew(peer0, peer1, nonce, signature0, signature1) ==
    LET t == IF peer0 < peer1
             THEN <<peer0, signature0, peer1, signature1>>
             ELSE <<peer1, signature1, peer0, signature0>>
    IN  [key |-> <<t[1], t[3]>>,
         nonce |-> nonce,
         signature0 |-> t[2],
         signature1 |-> t[4],
         removal_info |-> None]

\* Edge::make_fake_edge
make_fake_edge(peer0, peer1, nonce) ==
    [key |-> <<peer0, peer1>>,
     nonce |-> nonce,
     signature0 |-> EmptySignature,
     signature1 |-> EmptySignature,
     removal_info |-> None]

\* Edge::build_with_secret_key
build_with_secret_key(peer0, peer1, nonce, secret_key, signature1) ==
    LET h == IF peer0 < peer1
             THEN build_hash(peer0, peer1, nonce)
             ELSE build_hash(peer1, peer0, nonce)
        signature0 == sign(secret_key, h)
    IN  EdgeInnerNew(peer0, peer1, nonce, signature0, signature1)

\* the nonce always moves on by one
next_nonce_plus_one(nonce) == AddU64(nonce, 1)

\* Edge::next_nonce: the values the call may end with
next_nonce(nonce) ==
    IF nonce % 2 = 1 THEN AddU64(nonce, 2) ELSE AddU64(nonce, 1)

\* EdgeInner::edge_type
edge_type(e) == IF e.nonce % 2 = 1 THEN "Added" ELSE "Removed"

\* EdgeInner::hash and EdgeInner::prev_hash
edge_hash(e) == build_hash(e.key[1], e.key[2], e.nonce)
prev_hash(e) == build_hash(e.key[1], e.key[2], e.nonce - 1)

\* EdgeInner::verify
verify(e) ==
    IF e.key[1] > e.key[2] THEN FALSE
    ELSE IF edge_type(e) = "Added"
    THEN LET data == edge_hash(e)
         IN  /\ e.removal_info = None
             /\ signature_verify(e.signature0, data, public_key(e.key[1]))
             /\ signature_verify(e.signature1, data, public_key(e.key[2]))
    ELSE IF e.nonce = 0 THEN FALSE
    ELSE LET add_hash == prev_hash(e)
         IN  IF \/ ~signature_verify(e.signature0, add_hash, public_key(e.key[1]))
                \/ ~signature_verify(e.signature1, add_hash, public_key(e.key[2]))
             THEN FALSE
             ELSE IF e.removal_info # None
             THEN LET party == e.removal_info[1][1]
                      signature == e.removal_info[1][2]
                      peer == IF party THEN e.key[1] ELSE e.key[2]
                      del_hash == edge_hash(e)
                  IN  signature_verify(signature, del_hash, public_key(peer))
             ELSE FALSE

\* EdgeInner::remove_edge: the ways the call may end, a panic or the edge it
\* returns
edge_remove_edge(e, my_id, sk) ==
    IF edge_type(e) # "Added"
    THEN {[ret |-> Err("panic"), edge |-> e]}
    ELSE {IF ~n.ok
          THEN [ret |-> Err("panic"), edge |-> e]
          ELSE LET bumped == [e EXCEPT !.nonce = n.peer]
                   me == bumped.key[1] = my_id
                   signature == sign(sk, edge_hash(bumped))
               IN  [ret |-> OkUnit,
                    edge |-> [bumped EXCEPT !.removal_info = Some(<<me, signature>>)]]
          : n \in AddU64(e.nonce, 1)}

\* no ping was sent and no pong has come
PongIdle ==
    /\ waiting_pong = LruEmpty
    /\ pong_info = LruEmpty
    /\ pong_log = EmptyMap

\* the rest of a RoutingTableView after new, and no edge received yet
ViewIdle ==
    /\ PongIdle
    /\ edge = make_fake_edge(0, 0, 0)
    /\ local_edges_info = EmptyMap
    /\ last_ping_nonce = LruEmpty
    /\ ping_log = EmptyMap
    /\ account_peers = LruEmpty
    /\ account_store = EmptyMap
    /\ account_log = EmptyMap

\* PeerStore::new on an empty column and without boot nodes
StoreIdle == peer_store = PeerStoreNew(EmptyMap, << >>, 0)

\* RouteBackCache::new, at the start of the clock
RouteBackIdle ==
    /\ route_back = EmptyMap
    /\ now = 0
    /\ route_back_log = EmptyMap

GraphIdle ==
    /\ graph = GraphNew(my_peer_id)
    /\ distance_result = None
    /\ edges = {}
    /\ peak_peers = 1
    /\ ops_left = MaxOps
    /\ call_peers = Peers

\* RoutingTableView::new
RouteIdle ==
    /\ peer_forwarding = EmptyMap
    /\ route_nonce = EmptyMap
    /\ last_call = NoCall
    /\ calls = 0
    /\ returned = EmptyMap
    /\ RouteBackIdle

\* A routing table in use: peer_forwarding is a public field that the owner
\* replaces with the latest calculate_distance result, and route_nonce holds
\* whatever counters the find_route calls under earlier tables have left.
RouteInit ==
    /\ GraphIdle
    /\ peer_forwarding \in {EmptyMap} \cup {RouteTarget :> q : q \in RouteLists}
    /\ \E known \in SUBSET RoutePeers : route_nonce \in [known -> StartNonces]
    /\ last_call = NoCall
    /\ calls = 0
    /\ returned = EmptyMap
    /\ RouteBackIdle
    /\ StoreIdle
    /\ ViewIdle

\* find_route(&PeerIdOrHash::PeerId(target))
FindRouteCall(target) ==
    /\ LET r == find_route_from_peer_id(peer_forwarding, route_nonce, target)
       IN  /\ route_nonce' = r.route_nonce
           /\ last_call' = [op |-> "find_route", target |-> target, ret |-> r.ret]
           /\ returned' = IF r.ret.ok
                          THEN MapInsert(returned, r.ret.peer,
                                         CounterOf(returned, r.ret.peer) + 1)
                          ELSE returned
    /\ calls' = calls + 1
    /\ UNCHANGED peer_forwarding
    /\ UNCHANGED graph_vars
    /\ UNCHANGED back_vars
    /\ UNCHANGED peer_store
    /\ UNCHANGED view_vars

FindRoute(target) ==
    /\ calls < MaxCalls
    /\ FindRouteCall(target)

RouteNext == FindRoute(RouteTarget)

SpecRoute == RouteInit /\ [][RouteNext]_vars

\* A fresh routing table whose entry for the target lists three peers, and
\* a caller that routes RoundCalls messages to the target one after another.
RoundInit ==
    /\ GraphIdle
    /\ peer_forwarding \in {RouteTarget :> q : q \in {l \in RouteLists : Len(l) = 3}}
    /\ route_nonce = EmptyMap
    /\ last_call = NoCall
    /\ calls = 0
    /\ returned = EmptyMap
    /\ RouteBackIdle
    /\ StoreIdle
    /\ ViewIdle

RoundCall ==
    /\ calls < RoundCalls
    /\ FindRouteCall(RouteTarget)

SpecRound == RoundInit /\ [][RoundCall]_vars

\* A routing table in use whose entry for the target lists two peers or
\* more, and a caller that routes ClampCalls messages to the target one
\* after another.  The record of a call also tells how many calls in a row
\* have returned its peer (streak) and, for every candidate, how many calls
\* have gone by since it was returned (idle).
ClampInit ==
    /\ GraphIdle
    /\ peer_forwarding \in {RouteTarget :> q : q \in {l \in RouteLists : Len(l) >= 2}}
    /\ \E known \in SUBSET RoutePeers : route_nonce \in [known -> StartNonces]
    /\ last_call = NoCall
    /\ calls = 0
    /\ returned = EmptyMap
    /\ RouteBackIdle
    /\ StoreIdle
    /\ ViewIdle

ClampCall ==
    /\ calls < ClampCalls
    /\ LET r == find_route_from_peer_id(peer_forwarding, route_nonce, RouteTarget)
           cands == Range(peer_forwarding[RouteTarget])
           first == last_call.op = "new"
       IN  /\ route_nonce' = r.route_nonce
           /\ last_call' =
                 [op |-> "find_route", target |-> RouteTarget, ret |-> r.ret,
                  streak |-> IF ~first /\ last_call.ret = r.ret
                             THEN last_call.streak + 1 ELSE 1,
                  idle |-> [q \in cands |->
                              IF r.ret = Ok(q) THEN 0
                              ELSE IF first THEN 1 ELSE last_call.idle[q] + 1]]
           /\ returned' = IF r.ret.ok
                          THEN MapInsert(returned, r.ret.peer,
                                         CounterOf(returned, r.ret.peer) + 1)
                          ELSE returned
    /\ calls' = calls + 1
    /\ UNCHANGED peer_forwarding
    /\ UNCHANGED graph_vars
    /\ UNCHANGED back_vars
    /\ UNCHANGED peer_store
    /\ UNCHANGED view_vars

SpecClamp == ClampInit /\ [][ClampCall]_vars

\* the hashes and the previous hops of the messages routed back
BackHashes == 1..NumHashes
BackPeers == {1, 2}

BackFrame ==
    /\ UNCHANGED <<peer_forwarding, route_nonce, returned>>
    /\ UNCHANGED graph_vars
    /\ UNCHANGED peer_store
    /\ UNCHANGED view_vars

\* add_route_back(hash, peer_id)
AddRouteBack(hash, peer_id) ==
    /\ calls < BackCalls
    /\ LET r == add_route_back(route_back, now, hash, peer_id)
       IN  /\ route_back' = r.cache
           /\ last_call' = [op |-> "add_route_back", target |-> hash,
                            peer_id |-> peer_id, ret |-> Bool(r.ret)]
           /\ route_back_log' =
                 IF r.ret
                 THEN MapInsert(route_back_log, hash,
                                [peer |-> peer_id, at |-> now, fate |-> "pending"])
                 ELSE route_back_log
    /\ calls' = calls + 1
    /\ UNCHANGED now
    /\ BackFrame

\* compare_route_back(hash, &peer_id)
CompareRouteBack(hash, peer_id) ==
    /\ calls < BackCalls
    /\ LET r == compare_route_back(route_back, now, hash, peer_id)
       IN  /\ route_back' = r.cache
           /\ last_call' = [op |-> "compare_route_back", target |-> hash,
                            peer_id |-> peer_id, ret |-> Bool(r.ret)]
    /\ calls' = calls + 1
    /\ UNCHANGED <<now, route_back_log>>
    /\ BackFrame

\* find_route(&PeerIdOrHash::Hash(hash))
FindRouteHash(hash) ==
    /\ calls < BackCalls
    /\ LET r == find_route_from_hash(route_back, now, hash)
       IN  /\ route_back' = r.cache
           /\ last_call' = [op |-> "find_route_hash", target |-> hash, ret |-> r.ret]
           /\ route_back_log' =
                 IF hash \in DOMAIN route_back_log
                 THEN MapInsert(route_back_log, hash,
                                [route_back_log[hash] EXCEPT
                                    !.fate = IF r.ret.ok THEN "consumed"
                                             ELSE IF @ = "pending" THEN "lost" ELSE @])
                 ELSE route_back_log
    /\ calls' = calls + 1
    /\ UNCHANGED now
    /\ BackFrame

\* time passes
Tick ==
    /\ now < MaxTicks * TickMillis
    /\ now' = now + TickMillis
    /\ UNCHANGED <<route_back, route_back_log>>
    /\ UNCHANGED route_vars
    /\ UNCHANGED graph_vars
    /\ UNCHANGED peer_store
    /\ UNCHANGED view_vars

BackInit == GraphIdle /\ RouteIdle /\ StoreIdle /\ ViewIdle

BackNext ==
    \/ \E h \in BackHashes, p \in BackPeers : AddRouteBack(h, p)
    \/ \E h \in BackHashes, p \in BackPeers : CompareRouteBack(h, p)
    \/ \E h \in BackHashes : FindRouteHash(h)
    \/ Tick

SpecBack == BackInit /\ [][BackNext]_vars

----------------------------------------------------------------------------
(* RoutingTableView: local_edges_info *)

\* an edge of the same nonce counts as newer
is_local_edge_newer_or_equal(t_local_edges_info, key, nonce) ==
    IF ~(key[1] = my_peer_id \/ key[2] = my_peer_id)
    THEN Err("panic")
    ELSE Bool((IF key \in DOMAIN t_local_edges_info
               THEN t_local_edges_info[key].nonce
               ELSE 0) <= nonce)

\* RoutingTableView::is_local_edge_newer: the assertion, then
\* get(key).map_or(0, |x| x.nonce) < nonce
is_local_edge_newer(t_local_edges_info, key, nonce) ==
    IF ~(key[1] = my_peer_id \/ key[2] = my_peer_id)
    THEN Err("panic")
    ELSE Bool((IF key \in DOMAIN t_local_edges_info
               THEN t_local_edges_info[key].nonce
               ELSE 0) < nonce)

\* RoutingTableView::remove_edges: the edges are taken in order, and the
\* assertion on one of them ends the call with the earlier ones removed
RECURSIVE remove_edges(_, _)
remove_edges(t_local_edges_info, edge_list) ==
    IF edge_list = << >>
    THEN [ret |-> OkUnit, local_edges_info |-> t_local_edges_info]
    ELSE LET e == Head(edge_list)
         IN  IF ~(e.key[1] = my_peer_id \/ e.key[2] = my_peer_id)
             THEN [ret |-> Err("panic"), local_edges_info |-> t_local_edges_info]
             ELSE remove_edges(MapRemove(t_local_edges_info, e.key), Tail(edge_list))

----------------------------------------------------------------------------
(* RoutingTableView: the ping nonces *)

\* the counter is returned after the increment
get_ping_incremented(t_last_ping_nonce, peer_id) ==
    LET g == lru_get(t_last_ping_nonce, peer_id)
    IN  IF g.value # None
        THEN LET entry == g.value[1] + 1
             IN  [ret |-> entry,
                  last_ping_nonce |-> [g.cache EXCEPT ![Len(g.cache)].value = entry]]
        ELSE [ret |-> 1,
              last_ping_nonce |->
                  lru_set(t_last_ping_nonce, peer_id, 1, PING_PONG_CACHE_SIZE)]

\* RoutingTableView::get_ping
get_ping(t_last_ping_nonce, peer_id) ==
    LET g == lru_get(t_last_ping_nonce, peer_id)
    IN  IF g.value # None
        THEN LET entry == g.value[1] + 1
             IN  [ret |-> entry - 1,
                  last_ping_nonce |-> [g.cache EXCEPT ![Len(g.cache)].value = entry]]
        ELSE [ret |-> 0,
              last_ping_nonce |->
                  lru_set(t_last_ping_nonce, peer_id, 1, PING_PONG_CACHE_SIZE)]

----------------------------------------------------------------------------
(* RoutingTableView: pings that wait for their pong.  An Instant is the    *)
(* reading of a clock that never goes back; the round trip is the          *)
(* difference of two readings.                                             *)

Pong(nonce, source) == [nonce |-> nonce, source |-> source]

\* Instant::saturating_duration_since
saturating_duration_since(instant, earlier) ==
    IF instant > earlier THEN instant - earlier ELSE 0

\* RoutingTableView::sending_ping
sending_ping(t_waiting_pong, nonce, target, instant) ==
    LET g == lru_get(t_waiting_pong, target)
        w == IF g.value # None
             THEN g.cache
             ELSE lru_set(t_waiting_pong, target, LruEmpty, PING_PONG_CACHE_SIZE)
    IN  [w EXCEPT ![Len(w)].value = lru_set(@, nonce, instant, WAITING_PONG_SIZE)]

\* the ping keeps waiting after its pong
add_pong_keeps_expectation(t_waiting_pong, t_pong_info, pong, instant) ==
    LET g == lru_get(t_waiting_pong, pong.source)
        res == IF g.value # None /\ pong.nonce \in LruKeys(g.value[1])
               THEN Some(saturating_duration_since(instant, LruValue(g.value[1], pong.nonce)))
               ELSE None
        c == lru_get(t_pong_info, pong.nonce)
        cnt == IF c.value # None THEN c.value[1][2] ELSE 0
    IN  [ret |-> res,
         waiting_pong |-> g.cache,
         pong_info |-> lru_set(c.cache, pong.nonce, <<pong, cnt + 1>>,
                               PING_PONG_CACHE_SIZE)]

\* RoutingTableView::add_pong
add_pong(t_waiting_pong, t_pong_info, pong, instant) ==
    LET g == lru_get(t_waiting_pong, pong.source)
        res == IF g.value # None /\ pong.nonce \in LruKeys(g.value[1])
               THEN Some(saturating_duration_since(instant, LruValue(g.value[1], pong.nonce)))
               ELSE None
        w == IF g.value # None
             THEN [g.cache EXCEPT ![Len(g.cache)].value = LruWithout(@, pong.nonce)]
             ELSE t_waiting_pong
        c == lru_get(t_pong_info, pong.nonce)
        cnt == IF c.value # None THEN c.value[1][2] ELSE 0
    IN  [ret |-> res,
         waiting_pong |-> w,
         pong_info |-> lru_set(c.cache, pong.nonce, <<pong, cnt + 1>>,
                               PING_PONG_CACHE_SIZE)]

----------------------------------------------------------------------------
(* RoutingTableView: the account directory.  A call on the store may fail: *)
(* store_ok tells whether the write of add_account goes through, read_ok   *)
(* whether the read of get_announce does.                                  *)

AnnounceAccount(account_id, peer_id, epoch_id) ==
    [account_id |-> account_id, peer_id |-> peer_id, epoch_id |-> epoch_id]

\* the cache is left alone
add_account_store_only(t_account_peers, store, announce_account, store_ok) ==
    [account_peers |-> t_account_peers,
     store |-> IF store_ok
               THEN MapInsert(store, announce_account.account_id, announce_account)
               ELSE store]

\* RoutingTableView::add_account: the error of the store is logged and
\* nothing is returned
add_account(t_account_peers, store, announce_account, store_ok) ==
    [account_peers |-> lru_set(t_account_peers, announce_account.account_id,
                               announce_account, ANNOUNCE_ACCOUNT_CACHE_SIZE),
     store |-> IF store_ok
               THEN MapInsert(store, announce_account.account_id, announce_account)
               ELSE store]

\* RoutingTableView::get_announce
get_announce(t_account_peers, store, account_id, read_ok, store_ok) ==
    LET g == lru_get(t_account_peers, account_id)
    IN  IF g.value # None
        THEN [value |-> g.value, account_peers |-> g.cache, store |-> store]
        ELSE IF read_ok /\ account_id \in DOMAIN store
        THEN LET a == add_account(t_account_peers, store, store[account_id], store_ok)
             IN  [value |-> Some(store[account_id]),
                  account_peers |-> a.account_peers, store |-> a.store]
        ELSE [value |-> None, account_peers |-> t_account_peers, store |-> store]

\* RoutingTableView::account_owner
account_owner(t_account_peers, store, account_id, read_ok, store_ok) ==
    LET g == get_announce(t_account_peers, store, account_id, read_ok, store_ok)
    IN  [ret |-> IF g.value # None
                 THEN Ok(g.value[1].peer_id)
                 ELSE Err("AccountNotFound"),
         account_peers |-> g.account_peers, store |-> g.store]

\* RoutingTableView::contains_account
contains_account(t_account_peers, store, announce_account, read_ok, store_ok) ==
    LET g == get_announce(t_account_peers, store, announce_account.account_id,
                          read_ok, store_ok)
    IN  [ret |-> IF g.value # None
                 THEN g.value[1].epoch_id = announce_account.epoch_id
                 ELSE FALSE,
         account_peers |-> g.account_peers, store |-> g.store]

----------------------------------------------------------------------------
(* The callers of the account directory *)

Accounts == 1..NumAccounts
AnnouncePeers == 1..NumAnnouncePeers
Epochs == 1..NumEpochs

Announcements ==
    {AnnounceAccount(a, p, ep) : a \in Accounts, p \in AnnouncePeers, ep \in Epochs}

\* n entries in a row of accounts that the run does not name.  Their rows in
\* the store are left out: no call of the run reads them.
OtherAccounts(n) ==
    [key |-> 0 - 1, value |-> AnnounceAccount(0 - 1, 0, 0), run |-> n]

AccountFrame ==
    /\ UNCHANGED <<peer_forwarding, route_nonce, returned>>
    /\ UNCHANGED graph_vars
    /\ UNCHANGED back_vars
    /\ UNCHANGED peer_store
    /\ UNCHANGED <<edge, local_edges_info, last_ping_nonce, ping_log>>
    /\ UNCHANGED pong_vars

\* the log after a call that took the cache from before to after: the
\* accounts whose entry has left the cache are marked
MarkEvicted(log, before, after) ==
    [a \in DOMAIN log |->
        IF a \in LruKeys(before) \ LruKeys(after)
        THEN [log[a] EXCEPT !.evicted = TRUE]
        ELSE log[a]]

AccountCall(r, call, log) ==
    /\ calls < AccountCalls
    /\ account_peers' = r.account_peers
    /\ account_store' = r.store
    /\ last_call' = call
    /\ account_log' = MarkEvicted(log, account_peers, r.account_peers)
    /\ calls' = calls + 1
    /\ AccountFrame

AddAccount(announce_account, store_ok) ==
    AccountCall(add_account(account_peers, account_store, announce_account, store_ok),
                [op |-> "add_account", target |-> announce_account.account_id,
                 ret |-> OkUnit, announce |-> announce_account,
                 read_ok |-> TRUE, store_ok |-> store_ok],
                MapInsert(account_log, announce_account.account_id,
                          [announce |-> announce_account, wrote |-> store_ok,
                           evicted |-> FALSE]))

AccountOwner(account_id, read_ok, store_ok) ==
    LET r == account_owner(account_peers, account_store, account_id, read_ok, store_ok)
    IN  AccountCall(r,
                    [op |-> "account_owner", target |-> account_id, ret |-> r.ret,
                     announce |-> AnnounceAccount(account_id, 0, 0),
                     read_ok |-> read_ok, store_ok |-> store_ok],
                    account_log)

ContainsAccount(announce_account, read_ok, store_ok) ==
    LET r == contains_account(account_peers, account_store, announce_account,
                              read_ok, store_ok)
    IN  AccountCall(r,
                    [op |-> "contains_account", target |-> announce_account.account_id,
                     ret |-> Bool(r.ret), announce |-> announce_account,
                     read_ok |-> read_ok, store_ok |-> store_ok],
                    account_log)

\* a new view over an empty column, or one in which an account was announced
\* and then as many other accounts as fill the cache but for one place; the
\* row of the account holds that announcement, an earlier one whose write
\* went through when the last one did not, or nothing
AccountInit ==
    /\ GraphIdle
    /\ RouteIdle
    /\ StoreIdle
    /\ edge = make_fake_edge(0, 0, 0)
    /\ local_edges_info = EmptyMap
    /\ last_ping_nonce = LruEmpty
    /\ PongIdle
    /\ ping_log = EmptyMap
    /\ \/ /\ account_peers = LruEmpty
          /\ account_store = EmptyMap
          /\ account_log = EmptyMap
       \/ \E last \in Announcements :
             /\ account_peers =
                   <<LruEntry(last.account_id, last),
                     OtherAccounts(ANNOUNCE_ACCOUNT_CACHE_SIZE - 1)>>
             /\ account_store \in
                   {EmptyMap} \cup
                   {last.account_id :> row :
                       row \in {x \in Announcements : x.account_id = last.account_id}}
             /\ account_log =
                   (last.account_id :>
                       [announce |-> last,
                        wrote |-> account_store = (last.account_id :> last),
                        evicted |-> FALSE])

AccountNext ==
    \/ \E a \in Announcements, store_ok \in BOOLEAN : AddAccount(a, store_ok)
    \/ \E id \in Accounts, read_ok \in BOOLEAN, store_ok \in BOOLEAN :
          AccountOwner(id, read_ok, store_ok)
    \/ \E a \in Announcements, read_ok \in BOOLEAN, store_ok \in BOOLEAN :
          ContainsAccount(a, read_ok, store_ok)

SpecAccount == AccountInit /\ [][AccountNext]_vars

----------------------------------------------------------------------------
(* The callers of get_ping *)

PingPeers == 1..NumPingPeers

\* n entries in a row of peers that the run does not ping again, each
\* pinged once
OtherPings(n) == [key |-> 0 - 1, value |-> 1, run |-> n]

PingFrame ==
    /\ UNCHANGED <<peer_forwarding, route_nonce, returned>>
    /\ UNCHANGED graph_vars
    /\ UNCHANGED back_vars
    /\ UNCHANGED peer_store
    /\ UNCHANGED <<edge, local_edges_info, account_peers, account_store, account_log>>
    /\ UNCHANGED pong_vars

GetPing(peer_id) ==
    /\ calls < PingCalls
    /\ LET r == get_ping(last_ping_nonce, peer_id)
           before == IF peer_id \in DOMAIN ping_log
                     THEN ping_log[peer_id]
                     ELSE [calls |-> 0, evicted |-> FALSE]
           logged == MapInsert(ping_log, peer_id, [before EXCEPT !.calls = @ + 1])
       IN  /\ last_ping_nonce' = r.last_ping_nonce
           /\ last_call' = [op |-> "get_ping", target |-> peer_id, ret |-> Ok(r.ret)]
           /\ ping_log' =
                 [q \in DOMAIN logged |->
                    IF q \in LruKeys(last_ping_nonce) \ LruKeys(r.last_ping_nonce)
                    THEN [logged[q] EXCEPT !.evicted = TRUE]
                    ELSE logged[q]]
    /\ calls' = calls + 1
    /\ PingFrame

\* a new view, or one in which a peer was pinged and then as many other
\* peers as fill the cache but for one place
PingInit ==
    /\ GraphIdle
    /\ RouteIdle
    /\ StoreIdle
    /\ edge = make_fake_edge(0, 0, 0)
    /\ local_edges_info = EmptyMap
    /\ PongIdle
    /\ \/ /\ last_ping_nonce = LruEmpty
          /\ ping_log = EmptyMap
       \/ \E first \in PingPeers, n \in 1..MaxPingsBefore :
             /\ last_ping_nonce =
                   <<LruEntry(first, n), OtherPings(PING_PONG_CACHE_SIZE - 1)>>
             /\ ping_log = (first :> [calls |-> n, evicted |-> FALSE])
    /\ account_peers = LruEmpty
    /\ account_store = EmptyMap
    /\ account_log = EmptyMap

PingNext == \E peer_id \in PingPeers : GetPing(peer_id)

SpecPing == PingInit /\ [][PingNext]_vars

----------------------------------------------------------------------------
(* The callers of local_edges_info *)

LocalPeers == 1..NumLocalPeers
LocalNonces == 0..MaxLocalNonce

\* the keys callers ask about, with and without my_peer_id
LocalKeys == (LocalPeers \cup {my_peer_id}) \X (LocalPeers \cup {my_peer_id})

\* the tables the owner of the view may have filled: under the key of an
\* edge between my_peer_id and a peer, an edge of that key with a nonce that
\* verify accepts
LocalTables ==
    UNION {[{<<my_peer_id, p>> : p \in known} -> UNION {
                {make_fake_edge(my_peer_id, p, n) : n \in LocalNonces \ {0}}
                : p \in LocalPeers}]
           : known \in SUBSET LocalPeers}

LocalEdgeLists ==
    {<< >>} \cup {<<make_fake_edge(key[1], key[2], 1)>> : key \in LocalKeys}

LocalFrame ==
    /\ UNCHANGED <<peer_forwarding, route_nonce, returned>>
    /\ UNCHANGED graph_vars
    /\ UNCHANGED back_vars
    /\ UNCHANGED peer_store
    /\ UNCHANGED <<edge, last_ping_nonce, ping_log,
                   account_peers, account_store, account_log>>
    /\ UNCHANGED pong_vars

IsLocalEdgeNewer(key, nonce) ==
    /\ calls < LocalCalls
    /\ last_call' = [op |-> "is_local_edge_newer", target |-> nonce,
                     ret |-> is_local_edge_newer(local_edges_info, key, nonce),
                     key0 |-> key[1], key1 |-> key[2]]
    /\ calls' = calls + 1
    /\ UNCHANGED local_edges_info
    /\ LocalFrame

RemoveEdges(edge_list) ==
    /\ calls < LocalCalls
    /\ LET r == remove_edges(local_edges_info, edge_list)
       IN  /\ local_edges_info' = r.local_edges_info
           /\ last_call' = [op |-> "remove_edges", target |-> Len(edge_list), ret |-> r.ret]
    /\ calls' = calls + 1
    /\ LocalFrame

\* a view whose owner has recorded some local edges
LocalInit ==
    /\ GraphIdle
    /\ RouteIdle
    /\ StoreIdle
    /\ edge = make_fake_edge(0, 0, 0)
    /\ local_edges_info \in {t \in LocalTables : \A k \in DOMAIN t : t[k].key = k}
    /\ last_ping_nonce = LruEmpty
    /\ PongIdle
    /\ ping_log = EmptyMap
    /\ account_peers = LruEmpty
    /\ account_store = EmptyMap
    /\ account_log = EmptyMap

LocalNext ==
    \/ \E key \in LocalKeys, nonce \in LocalNonces : IsLocalEdgeNewer(key, nonce)
    \/ \E edge_list \in LocalEdgeLists : RemoveEdges(edge_list)

SpecLocal == LocalInit /\ [][LocalNext]_vars

----------------------------------------------------------------------------
(* The callers of Edge *)

EdgePeers == 1..NumEdgePeers
EdgeNonces == 0..MaxU64

\* the signatures a received edge may carry: any peer's over the hash of the
\* edge at its nonce or at the nonce before, or an empty one
ReceivedSignatures(key, nonce) ==
    {sign(SecretKeyOf(p), build_hash(key[1], key[2], m)) :
        p \in EdgePeers, m \in {nonce, nonce - 1} \cap EdgeNonces}
    \cup {EmptySignature}

\* the edges a peer may send: EdgeInner is deserialized field by field, so
\* every combination of fields arrives
ReceivedEdges ==
    UNION {
      UNION {
        [key : {key}, nonce : {nonce},
         signature0 : ReceivedSignatures(key, nonce),
         signature1 : ReceivedSignatures(key, nonce),
         removal_info : {None} \cup
            {Some(<<party, sign(SecretKeyOf(p), build_hash(key[1], key[2], nonce))>>) :
                party \in BOOLEAN, p \in EdgePeers}
            \cup {Some(<<party, EmptySignature>>) : party \in BOOLEAN}]
        : nonce \in EdgeNonces}
      : key \in EdgePeers \X EdgePeers}

EdgeFrame ==
    /\ UNCHANGED <<peer_forwarding, route_nonce, returned>>
    /\ UNCHANGED graph_vars
    /\ UNCHANGED back_vars
    /\ UNCHANGED peer_store
    /\ UNCHANGED <<local_edges_info, last_ping_nonce, ping_log,
                   account_peers, account_store, account_log>>
    /\ UNCHANGED pong_vars

\* one call on the edge at hand
EdgeCall(e, call) ==
    /\ calls = 0
    /\ edge' = e
    /\ last_call' = call
    /\ calls' = calls + 1
    /\ EdgeFrame

\* Edge::new on the half-signatures that the two peers made with
\* EdgeInfo::new, each with its own key
EdgeNew(peer0, peer1, nonce) ==
    /\ peer0 # peer1
    /\ EdgeCall(EdgeInnerNew(peer0, peer1, nonce,
                    EdgeInfoNew(peer0, peer1, nonce, SecretKeyOf(peer0)).signature,
                    EdgeInfoNew(peer1, peer0, nonce, SecretKeyOf(peer1)).signature),
                [op |-> "Edge::new", target |-> nonce, ret |-> OkUnit,
                 peer0 |-> peer0, peer1 |-> peer1])

\* Edge::build_with_secret_key by peer0 on the half-signature of peer1
BuildWithSecretKey(peer0, peer1, nonce) ==
    /\ peer0 # peer1
    /\ EdgeCall(build_with_secret_key(peer0, peer1, nonce, SecretKeyOf(peer0),
                    EdgeInfoNew(peer1, peer0, nonce, SecretKeyOf(peer1)).signature),
                [op |-> "build_with_secret_key", target |-> nonce, ret |-> OkUnit,
                 peer0 |-> peer0, peer1 |-> peer1])

\* edge.remove_edge(my_peer_id, sk)
RemoveEdgeCall(my_id, sk) ==
    \E r \in edge_remove_edge(edge, my_id, sk) :
        EdgeCall(r.edge,
                 [op |-> "Edge::remove_edge", target |-> 0, ret |-> r.ret,
                  peer0 |-> my_id, secret_key |-> sk])

\* edge.verify()
Verify ==
    EdgeCall(edge, [op |-> "verify", target |-> 0, ret |-> Bool(verify(edge))])

\* Edge::next_nonce(nonce)
NextNonce(nonce) ==
    \E r \in next_nonce(nonce) :
        EdgeCall(edge, [op |-> "next_nonce", target |-> nonce, ret |-> r])

\* an edge has arrived from a peer
EdgeInit ==
    /\ GraphIdle
    /\ RouteIdle
    /\ StoreIdle
    /\ edge \in ReceivedEdges
    /\ local_edges_info = EmptyMap
    /\ last_ping_nonce = LruEmpty
    /\ PongIdle
    /\ ping_log = EmptyMap
    /\ account_peers = LruEmpty
    /\ account_store = EmptyMap
    /\ account_log = EmptyMap

EdgeNext ==
    \/ \E peer0 \in EdgePeers, peer1 \in EdgePeers, nonce \in EdgeNonces :
          EdgeNew(peer0, peer1, nonce)
    \/ \E peer0 \in EdgePeers, peer1 \in EdgePeers, nonce \in EdgeNonces :
          BuildWithSecretKey(peer0, peer1, nonce)
    \/ \E my_id \in EdgePeers, sk \in EdgePeers : RemoveEdgeCall(my_id, SecretKeyOf(sk))
    \/ Verify
    \/ \E nonce \in EdgeNonces : NextNonce(nonce)

SpecEdge == EdgeInit /\ [][EdgeNext]_vars

----------------------------------------------------------------------------
(* Add/remove cycles of the edge between my_peer_id and one peer.  The     *)
(* edge at hand is the latest edge of the pair; the owner of the view asks *)
(* is_local_edge_newer about every edge of the pair that comes up and      *)
(* records the edge in local_edges_info when the answer is yes.            *)

\* EdgeInner::next
edge_next(e) == next_nonce(e.nonce)

\* the edge between the pair that both sign with EdgeInfo::new at a nonce
SignedEdge(peer0, peer1, nonce) ==
    EdgeInnerNew(peer0, peer1, nonce,
                 EdgeInfoNew(peer0, peer1, nonce, SecretKeyOf(peer0)).signature,
                 EdgeInfoNew(peer1, peer0, nonce, SecretKeyOf(peer1)).signature)

CycleFrame ==
    /\ UNCHANGED <<peer_forwarding, route_nonce, returned>>
    /\ UNCHANGED graph_vars
    /\ UNCHANGED back_vars
    /\ UNCHANGED peer_store
    /\ UNCHANGED <<last_ping_nonce, ping_log, account_peers, account_store, account_log>>
    /\ UNCHANGED pong_vars

\* the owner is offered the edge e of the pair
Offer(op, e) ==
    LET newer == is_local_edge_newer(local_edges_info, e.key, e.nonce)
    IN  /\ last_call' = [op |-> op, target |-> e.nonce, ret |-> newer]
        /\ local_edges_info' = IF newer = Bool(TRUE)
                                THEN MapInsert(local_edges_info, e.key, e)
                                ELSE local_edges_info

\* an endpoint removes the current Added edge with remove_edge
CycleRemove(my_id) ==
    /\ calls < CycleCalls
    /\ edge_type(edge) = "Added"
    /\ my_id \in {edge.key[1], edge.key[2]}
    /\ \E r \in edge_remove_edge(edge, my_id, SecretKeyOf(my_id)) :
          IF r.ret = OkUnit
          THEN /\ edge' = r.edge
               /\ Offer("cycle_remove", r.edge)
          ELSE /\ last_call' = [op |-> "cycle_remove", target |-> edge.nonce, ret |-> r.ret]
               /\ UNCHANGED <<edge, local_edges_info>>
    /\ calls' = calls + 1
    /\ CycleFrame

\* the endpoints add the edge again at next_nonce of the latest nonce
CycleAdd ==
    /\ calls < CycleCalls
    /\ edge_type(edge) = "Removed"
    /\ \E n \in edge_next(edge) :
          IF n.ok
          THEN LET e == SignedEdge(edge.key[1], edge.key[2], n.peer)
               IN  /\ edge' = e
                   /\ Offer("cycle_add", e)
          ELSE /\ last_call' = [op |-> "cycle_add", target |-> edge.nonce, ret |-> n]
               /\ UNCHANGED <<edge, local_edges_info>>
    /\ calls' = calls + 1
    /\ CycleFrame

\* an edge of the pair with any nonce is offered again; the edge at hand stays
CycleReplay(nonce) ==
    /\ calls < CycleCalls
    /\ Offer("cycle_replay", SignedEdge(edge.key[1], edge.key[2], nonce))
    /\ UNCHANGED local_edges_info
    /\ UNCHANGED edge
    /\ calls' = calls + 1
    /\ CycleFrame

\* the pair is connected by a verified Added edge that the owner has recorded
CycleInit ==
    /\ GraphIdle
    /\ RouteIdle
    /\ StoreIdle
    /\ \E p \in EdgePeers, nonce \in {n \in EdgeNonces : n % 2 = 1} :
          /\ edge = SignedEdge(my_peer_id, p, nonce)
          /\ local_edges_info = (edge.key :> edge)
    /\ last_ping_nonce = LruEmpty
    /\ PongIdle
    /\ ping_log = EmptyMap
    /\ account_peers = LruEmpty
    /\ account_store = EmptyMap
    /\ account_log = EmptyMap

CycleNext ==
    \/ \E my_id \in EdgePeers \cup {my_peer_id} : CycleRemove(my_id)
    \/ CycleAdd
    \/ \E nonce \in EdgeNonces : CycleReplay(nonce)

SpecCycle == CycleInit /\ [][CycleNext]_vars

----------------------------------------------------------------------------
(* The callers of sending_ping and add_pong *)

PongPeers == 1..NumPongPeers
PongNonces == 0..(NumPongNonces - 1)

\* n entries in a row: targets, waiting nonces, and answered nonces that
\* the run does not name
OtherTargets(n) == [key |-> 0 - 1, value |-> LruEmpty, run |-> n]
OtherNonces(n) == [key |-> 0 - 1, value |-> 0, run |-> n]
OtherPongs(n) == [key |-> 0 - 1, value |-> <<Pong(0 - 1, 0), 1>>, run |-> n]

Row(entry) == IF entry.run > 0 THEN <<entry>> ELSE << >>

\* the number of nonces recorded for the target after the expectation
LaterCount(log, target, nonce) ==
    log[<<target, nonce>>].others + Cardinality(log[<<target, nonce>>].later)

\* the ping (target, nonce) waits for its pong
PingPending(t_waiting_pong, target, nonce) ==
    /\ target \in LruKeys(t_waiting_pong)
    /\ nonce \in LruKeys(LruValue(t_waiting_pong, target))

\* the count that pong_info holds for the nonce
PongCount(t_pong_info, nonce) ==
    IF nonce \in LruKeys(t_pong_info) THEN LruValue(t_pong_info, nonce)[2] ELSE 0

PongFrame ==
    /\ UNCHANGED <<peer_forwarding, route_nonce, returned>>
    /\ UNCHANGED graph_vars
    /\ UNCHANGED back_vars
    /\ UNCHANGED peer_store
    /\ UNCHANGED <<edge, local_edges_info, last_ping_nonce, ping_log,
                   account_peers, account_store, account_log>>

SendingPing(nonce, target) ==
    /\ calls < PongCalls
    /\ waiting_pong' = sending_ping(waiting_pong, nonce, target, calls)
    /\ UNCHANGED pong_info
    /\ pong_log' =
          MapInsert([k \in DOMAIN pong_log |->
                        IF k[1] = target /\ k[2] # nonce
                        THEN [pong_log[k] EXCEPT !.later = @ \cup {nonce}]
                        ELSE IF k[1] \in LruKeys(waiting_pong) \ LruKeys(waiting_pong')
                        THEN [pong_log[k] EXCEPT !.dropped = TRUE]
                        ELSE pong_log[k]],
                    <<target, nonce>>, [others |-> 0, later |-> {}, dropped |-> FALSE])
    /\ last_call' = [op |-> "sending_ping", target |-> target, ret |-> OkUnit,
                     nonce |-> nonce, expected |-> FALSE, later |-> 0]
    /\ calls' = calls + 1
    /\ PongFrame

AddPong(pong) ==
    /\ calls < PongCalls
    /\ LET r == add_pong(waiting_pong, pong_info, pong, calls)
           key == <<pong.source, pong.nonce>>
       IN  /\ waiting_pong' = r.waiting_pong
           /\ pong_info' = r.pong_info
           /\ pong_log' = MapRemove(pong_log, key)
           /\ last_call' =
                 [op |-> "add_pong", target |-> pong.source,
                  ret |-> IF r.ret # None THEN Ok(r.ret[1]) ELSE Err("None"),
                  nonce |-> pong.nonce,
                  expected |-> key \in DOMAIN pong_log,
                  later |-> IF key \in DOMAIN pong_log
                            THEN LaterCount(pong_log, pong.source, pong.nonce)
                            ELSE 0]
    /\ calls' = calls + 1
    /\ PongFrame

\* a new view, or one in which a ping with nonce 0 was sent to a target and
\* then later pings with other nonces, some of them answered and the rest
\* still waiting behind it; before all that, the target was either the only
\* one or was followed by as many other targets as fill waiting_pong but
\* for one place, and pong_info holds the answered pongs or is filled up
\* behind an earlier pong with nonce 0
PongInit ==
    /\ GraphIdle
    /\ RouteIdle
    /\ StoreIdle
    /\ edge = make_fake_edge(0, 0, 0)
    /\ local_edges_info = EmptyMap
    /\ last_ping_nonce = LruEmpty
    /\ ping_log = EmptyMap
    /\ account_peers = LruEmpty
    /\ account_store = EmptyMap
    /\ account_log = EmptyMap
    /\ \/ PongIdle
       \/ \E first \in PongPeers, waiting \in 0..(WAITING_PONG_SIZE - 1),
             answered \in 0..MaxLater, full \in BOOLEAN, filled \in BOOLEAN :
             /\ waiting + answered <= MaxLater
             /\ waiting_pong =
                   <<LruEntry(first, <<LruEntry(0, 0)>> \o Row(OtherNonces(waiting)))>>
                   \o (IF full THEN <<OtherTargets(PING_PONG_CACHE_SIZE - 1)>> ELSE << >>)
             /\ pong_info =
                   IF filled
                   THEN <<LruEntry(0, <<Pong(0, first), 1>>),
                          OtherPongs(PING_PONG_CACHE_SIZE - 1)>>
                   ELSE Row(OtherPongs(answered))
             /\ pong_log = (<<first, 0>> :>
                              [others |-> waiting + answered, later |-> {}, dropped |-> FALSE])

PongNext ==
    \/ \E nonce \in PongNonces, target \in PongPeers : SendingPing(nonce, target)
    \/ \E nonce \in PongNonces, source \in PongPeers : AddPong(Pong(nonce, source))

SpecPong == PongInit /\ [][PongNext]_vars

----------------------------------------------------------------------------
(* The PeerStore's callers *)

StorePeers == 1..NumStorePeers
Addrs == 1..NumAddrs
PeerInfos == {PeerInfo(id, addr) : id \in StorePeers, addr \in {None} \cup {Some(a) : a \in Addrs}}
PeerInfoLists == UNION {[1..n -> PeerInfos] : n \in 0..MaxList}
BanReasons == {"Abusive"}

\* NetworkConfig::peer_expiration_duration of the runs: one step of the clock
peer_expiration_duration == TickMillis

StoreFrame ==
    /\ UNCHANGED <<peer_forwarding, route_nonce, returned>>
    /\ UNCHANGED graph_vars
    /\ UNCHANGED back_vars
    /\ UNCHANGED view_vars

\* a call on the PeerStore: what it leaves behind, and the record of the
\* call (its name, its arguments and what it returned)
StoreCall(ps, call) ==
    /\ calls < StoreCalls
    /\ peer_store' = ps
    /\ last_call' = call
    /\ calls' = calls + 1
    /\ StoreFrame

\* a restart: PeerStore::new(store, boot_nodes) on the persisted column
Restart(boot_nodes) ==
    StoreCall(PeerStoreNew(peer_store.store, boot_nodes, now),
              [op |-> "new", target |-> 0, ret |-> OkUnit, boot_nodes |-> boot_nodes])

PeerConnected(peer_info) ==
    StoreCall(peer_connected(peer_store, peer_info, now),
              [op |-> "peer_connected", target |-> peer_info.id, ret |-> OkUnit,
               peer_info |-> peer_info])

PeerDisconnected(peer_id) ==
    LET r == peer_disconnected(peer_store, peer_id, now)
    IN  StoreCall(r.ps, [op |-> "peer_disconnected", target |-> peer_id, ret |-> r.ret])

PeerBan(peer_id, ban_reason) ==
    LET r == peer_ban(peer_store, peer_id, ban_reason, now)
    IN  StoreCall(r.ps, [op |-> "peer_ban", target |-> peer_id, ret |-> r.ret,
                         ban_reason |-> ban_reason])

PeerUnban(peer_id) ==
    LET r == peer_unban(peer_store, peer_id)
    IN  StoreCall(r.ps, [op |-> "peer_unban", target |-> peer_id, ret |-> r.ret])

AddIndirectPeers(peers) ==
    StoreCall(add_indirect_peers(peer_store, peers, now),
              [op |-> "add_indirect_peers", target |-> 0, ret |-> OkUnit,
               peers |-> peers])

AddTrustedPeer(peer_info, trust_level) ==
    StoreCall(add_trusted_peer(peer_store, peer_info, trust_level, now),
              [op |-> "add_trusted_peer", target |-> peer_info.id, ret |-> OkUnit,
               peer_info |-> peer_info, trust_level |-> trust_level])

RemoveExpired ==
    StoreCall(remove_expired(peer_store, peer_expiration_duration, now),
              [op |-> "remove_expired", target |-> 0, ret |-> OkUnit])

UnconnectedPeer(ignored) ==
    \E found \in unconnected_peer(peer_store, ignored) :
        StoreCall(peer_store,
                  [op |-> "unconnected_peer", target |-> 0, ret |-> OkUnit,
                   ignored |-> ignored, found |-> found])

HealthyPeers(max_count) ==
    \E found \in healthy_peers(peer_store, max_count) :
        StoreCall(peer_store,
                  [op |-> "healthy_peers", target |-> max_count, ret |-> OkUnit,
                   healthy |-> found])

\* a PeerStore constructed over an empty column, with any boot nodes
StoreInit ==
    /\ GraphIdle
    /\ RouteIdle
    /\ ViewIdle
    /\ \E boot_nodes \in PeerInfoLists :
          peer_store = PeerStoreNew(EmptyMap, boot_nodes, 0)

\* the runs about boot nodes: restarts with longer lists of boot nodes,
\* between calls that bind, persist and ban peers
BootLists == UNION {[1..n -> PeerInfos] : n \in 0..MaxBoot}

BootCall(ps, call) ==
    /\ calls < BootCalls
    /\ peer_store' = ps
    /\ last_call' = call
    /\ calls' = calls + 1
    /\ StoreFrame

BootRestart(boot_nodes) ==
    BootCall(PeerStoreNew(peer_store.store, boot_nodes, now),
             [op |-> "new", target |-> 0, ret |-> OkUnit, boot_nodes |-> boot_nodes])

BootConnected(peer_info) ==
    BootCall(peer_connected(peer_store, peer_info, now),
             [op |-> "peer_connected", target |-> peer_info.id, ret |-> OkUnit,
              peer_info |-> peer_info])

BootBan(peer_id, ban_reason) ==
    LET r == peer_ban(peer_store, peer_id, ban_reason, now)
    IN  BootCall(r.ps, [op |-> "peer_ban", target |-> peer_id, ret |-> r.ret,
                        ban_reason |-> ban_reason])

BootAdd(peer_info, trust_level) ==
    BootCall(add_trusted_peer(peer_store, peer_info, trust_level, now),
             [op |-> "add_trusted_peer", target |-> peer_info.id, ret |-> OkUnit,
              peer_info |-> peer_info, trust_level |-> trust_level])

BootInit ==
    /\ GraphIdle
    /\ RouteIdle
    /\ ViewIdle
    /\ \E boot_nodes \in BootLists :
          peer_store = PeerStoreNew(EmptyMap, boot_nodes, 0)

BootNext ==
    \/ \E boot_nodes \in BootLists : BootRestart(boot_nodes)
    \/ \E peer_info \in PeerInfos : BootConnected(peer_info)
    \/ \E peer_id \in StorePeers, r \in BanReasons : BootBan(peer_id, r)
    \/ \E peer_info \in PeerInfos, l \in {"Direct", "Signed"} : BootAdd(peer_info, l)

SpecBoot == BootInit /\ [][BootNext]_vars

StoreNext ==
    \/ \E boot_nodes \in PeerInfoLists : Restart(boot_nodes)
    \/ \E peer_info \in PeerInfos : PeerConnected(peer_info)
    \/ \E peer_id \in StorePeers : PeerDisconnected(peer_id)
    \/ \E peer_id \in StorePeers, r \in BanReasons : PeerBan(peer_id, r)
    \/ \E peer_id \in StorePeers : PeerUnban(peer_id)
    \/ \E peers \in PeerInfoLists : AddIndirectPeers(peers)
    \/ \E peer_info \in PeerInfos, l \in {"Direct", "Signed"} : AddTrustedPeer(peer_info, l)
    \/ RemoveExpired
    \/ \E ignored \in SUBSET StorePeers : UnconnectedPeer(ignored)
    \/ \E max_count \in 0..NumStorePeers : HealthyPeers(max_count)
    \/ Tick

SpecStore == StoreInit /\ [][StoreNext]_vars

----------------------------------------------------------------------------
(* The graph's callers *)

Pair(a, b) == {a, b}

present_peers(g) == Cardinality(DOMAIN g.p2id)

Max(a, b) == IF a > b THEN a ELSE b

Init ==
    /\ GraphIdle
    /\ RouteIdle
    /\ StoreIdle
    /\ ViewIdle

\* g after add_edge(source, lo), ..., add_edge(source, hi - 1)
RECURSIVE AddFan(_, _, _)
AddFan(g, lo, hi) ==
    IF hi <= lo THEN g
    ELSE IF hi = lo + 1 THEN add_edge(g, my_peer_id, lo)
    ELSE LET mid   == (lo + hi) \div 2
             first == AddFan(g, lo, mid)
         IN  IF Done(first) THEN AddFan(first, mid, hi) ELSE first

\* the graph after add_edge(source, 1), ..., add_edge(source, n)
FanGraph(n) == AddFan(GraphNew(my_peer_id), 1, n + 1)

FanPeers == {my_peer_id, 1} \cup (MAX_NUM_PEERS .. MAX_NUM_PEERS + FanExtra)

\* a run that starts at the fan-out ceiling
FanInit ==
    \E n \in {MAX_NUM_PEERS - 1, MAX_NUM_PEERS} :
        /\ graph = FanGraph(n)
        /\ distance_result = None
        /\ edges = {Pair(my_peer_id, i) : i \in 1..n}
        /\ peak_peers = n + 1
        /\ ops_left = FanOps
        /\ call_peers = FanPeers
        /\ RouteIdle
        /\ StoreIdle
        /\ ViewIdle

AddEdge(a, b) ==
    /\ a # b
    /\ ops_left > 0
    /\ graph' = add_edge(graph, a, b)
    /\ ops_left' = IF graph' = graph THEN ops_left ELSE ops_left - 1
    /\ distance_result' = None
    /\ edges' = edges \cup {Pair(a, b)}
    /\ peak_peers' = Max(peak_peers, present_peers(graph'))
    /\ UNCHANGED call_peers
    /\ UNCHANGED route_vars
    /\ UNCHANGED back_vars
    /\ UNCHANGED peer_store
    /\ UNCHANGED view_vars

RemoveEdge(a, b) ==
    /\ a # b
    /\ ops_left > 0
    /\ graph' = remove_edge(graph, a, b)
    /\ ops_left' = IF graph' = graph THEN ops_left ELSE ops_left - 1
    /\ distance_result' = None
    /\ edges' = edges \ {Pair(a, b)}
    /\ UNCHANGED <<peak_peers, call_peers>>
    /\ UNCHANGED route_vars
    /\ UNCHANGED back_vars
    /\ UNCHANGED peer_store
    /\ UNCHANGED view_vars

CalculateDistance ==
    /\ distance_result' = Some(calculate_distance(graph))
    /\ UNCHANGED <<graph, edges, peak_peers, ops_left, call_peers>>
    /\ UNCHANGED route_vars
    /\ UNCHANGED back_vars
    /\ UNCHANGED peer_store
    /\ UNCHANGED view_vars

Next ==
    \/ \E a, b \in call_peers : AddEdge(a, b)
    \/ \E a, b \in call_peers : RemoveEdge(a, b)
    \/ CalculateDistance

Spec == Init /\ [][Next]_vars

SpecFan == FanInit /\ [][Next]_vars

----------------------------------------------------------------------------
(* Reference notions, defined on the history variable edges and not on the *)
(* Graph object: the peer graph the callers have built.                    *)

RefPeers == UNION edges \cup {my_peer_id}

RefNeighbours(p) == UNION {e \in edges : p \in e} \ {p}

\* the peers that paths from the peers in from lead to, never stepping onto
\* a peer in avoid
RECURSIVE RefClosure(_, _)
RefClosure(from, avoid) ==
    LET next == from \cup ((UNION {RefNeighbours(p) : p \in from}) \ avoid)
    IN  IF next = from THEN from ELSE RefClosure(next, avoid)

\* the peers connected to the source
RefConnected == RefClosure({my_peer_id}, {})

\* the length of a shortest path to q from the peers in seen, which are all
\* the peers within d edges of the start; -1 when there is none
RECURSIVE RefLevels(_, _, _)
RefLevels(seen, d, q) ==
    IF q \in seen THEN d
    ELSE LET next == seen \cup UNION {RefNeighbours(p) : p \in seen}
         IN  IF next = seen THEN -1 ELSE RefLevels(next, d + 1, q)

\* the length of a shortest path from p to q, -1 when there is none
RefDist(p, q) == RefLevels({p}, 0, q)

\* the direct neighbours v of the source such that some shortest path from
\* the source to u begins with the edge (source, v)
RefNextHops(u) ==
    {v \in RefNeighbours(my_peer_id) :
        RefDist(v, u) # -1 /\ 1 + RefDist(v, u) = RefDist(my_peer_id, u)}

\* the source's adjacency list, as peers
SourceNeighbours == [i \in 1..Len(graph.adjacency[graph.source_id]) |->
                        graph.id2p[graph.adjacency[graph.source_id][i]]]

HasResult == distance_result # None

\* the map the caller holds, when HasResult
Result == distance_result[1]

\* the source's direct neighbours that calculate_distance enumerates (the
\* first MAX_NUM_PEERS of its adjacency list), and the others
SeededNeighbours ==
    {SourceNeighbours[i] : i \in {k \in 1..Len(SourceNeighbours) : k <= MAX_NUM_PEERS}}

OverflowNeighbours ==
    {SourceNeighbours[i] : i \in {k \in 1..Len(SourceNeighbours) : k > MAX_NUM_PEERS}}

WithinCeiling == Len(SourceNeighbours) <= MAX_NUM_PEERS

----------------------------------------------------------------------------
(* C1: with at most MAX_NUM_PEERS direct neighbours of the source,          *)
(* calculate_distance maps every peer other than the source that is        *)
(* reachable from the source to exactly the set of the source's direct     *)
(* neighbours that begin some shortest path to it.                         *)
C1_ExactShortestPathNeighbours ==
    (HasResult /\ WithinCeiling) =>
        \A u \in RefPeers \ {my_peer_id} :
            u \in RefConnected =>
                /\ u \in DOMAIN Result
                /\ Range(Result[u]) = RefNextHops(u)

\* the diamond: a peer two hops away that both neighbours of the source lead to
C1_Witness ==
    /\ HasResult
    /\ graph.total_active_edges = 5
    /\ \E u \in DOMAIN Result :
          /\ RefDist(my_peer_id, u) = 2
          /\ Len(Result[u]) = 2

----------------------------------------------------------------------------
\* the part of C2 about edges added away from the source: for peers a, b
\* not connected to the source, add_edge(a, b) raises total_active_edges and
\* leaves the map that calculate_distance returns as it is
GhostEdgesIgnored ==
    \A a, b \in call_peers \ RefConnected :
        (a # b /\ Pair(a, b) \notin edges) =>
            LET g2 == add_edge(graph, a, b)
            IN  /\ g2.total_active_edges = graph.total_active_edges + 1
                /\ calculate_distance(g2) = Result

(* C2 as claimed: the key set of calculate_distance's result is exactly the *)
(* set of peers other than the source that are connected to the source, and *)
(* edges added inside a component without the source change                *)
(* total_active_edges but not the returned map.                            *)
C2_KeysAreConnectedPeers_Original ==
    HasResult =>
        /\ DOMAIN Result = RefConnected \ {my_peer_id}
        /\ GhostEdgesIgnored

(* C2, amended: the same, for a source with at most MAX_NUM_PEERS direct   *)
(* neighbours (beyond that, a connected peer may be missing from the keys).*)
C2_KeysAreConnectedPeers ==
    HasResult =>
        /\ WithinCeiling => DOMAIN Result = RefConnected \ {my_peer_id}
        /\ GhostEdgesIgnored

\* a result with keys, while an edge exists between two peers that are not
\* connected to the source
C2_Witness ==
    /\ HasResult
    /\ WithinCeiling
    /\ DOMAIN Result # {}
    /\ \E e \in edges : e \cap RefConnected = {}
    /\ graph.total_active_edges > Cardinality(DOMAIN Result)

(* C3 as claimed: calculate_distance maps every direct neighbour v of the  *)
(* source to the one-element list [v].                                     *)
C3_NeighboursMapToThemselves_Original ==
    HasResult =>
        \A v \in RefNeighbours(my_peer_id) :
            v \in DOMAIN Result /\ Result[v] = <<v>>

(* C3, amended: calculate_distance maps each of the first MAX_NUM_PEERS    *)
(* direct neighbours of the source, in adjacency order, to the one-element *)
(* list of itself: every direct neighbour when there are at most           *)
(* MAX_NUM_PEERS of them.                                                  *)
C3_NeighboursMapToThemselves ==
    HasResult =>
        /\ \A v \in SeededNeighbours :
              v \in DOMAIN Result /\ Result[v] = <<v>>
        /\ WithinCeiling => SeededNeighbours = RefNeighbours(my_peer_id)

\* a result for a source with exactly MAX_NUM_PEERS neighbours, the last of
\* them added by this run
C3_Witness ==
    /\ HasResult
    /\ Len(SourceNeighbours) = MAX_NUM_PEERS
    /\ SourceNeighbours[MAX_NUM_PEERS] # MAX_NUM_PEERS
    /\ Result[SourceNeighbours[MAX_NUM_PEERS]] = <<SourceNeighbours[MAX_NUM_PEERS]>>

\* the part of C4 that holds: only the first MAX_NUM_PEERS neighbours of
\* the source appear inside next-hop lists
OnlySeededInLists ==
    \A u \in DOMAIN Result : Range(Result[u]) \subseteq SeededNeighbours

(* C4 as claimed: with more than MAX_NUM_PEERS direct neighbours, only the *)
(* first MAX_NUM_PEERS appear inside next-hop lists, and each overflow     *)
(* neighbour is still treated as reachable at distance 1 from the source.  *)
C4_OverflowNeighbours_Original ==
    HasResult =>
        /\ OnlySeededInLists
        /\ \A n \in OverflowNeighbours :
              bfs(graph).distance[graph.p2id[n]] = 1

(* C4, amended: with more than MAX_NUM_PEERS direct neighbours, only the   *)
(* first MAX_NUM_PEERS appear inside next-hop lists, and an overflow       *)
(* neighbour is never treated as being at distance 1: it is left           *)
(* unreachable and absent from the result, unless a path from one of the   *)
(* first MAX_NUM_PEERS neighbours that avoids the source leads to it, and  *)
(* then it is listed at a distance of at least 2 with next hops other than *)
(* itself.                                                                 *)
C4_OverflowNeighbours ==
    HasResult =>
        /\ OnlySeededInLists
        /\ \A n \in OverflowNeighbours :
              LET d == bfs(graph).distance[graph.p2id[n]]
              IN  IF n \in RefClosure(SeededNeighbours, {my_peer_id})
                  THEN d >= 2 /\ n \in DOMAIN Result /\ n \notin Range(Result[n])
                  ELSE d = -1 /\ n \notin DOMAIN Result

\* one overflow neighbour that a seeded neighbour leads to, or one that is
\* left out, in a result with MAX_NUM_PEERS keys or more
C4_Witness ==
    /\ HasResult
    /\ OverflowNeighbours # {}
    /\ Cardinality(DOMAIN Result) >= MAX_NUM_PEERS
    /\ \E n \in OverflowNeighbours : n \in DOMAIN Result

(* C5: every list returned by calculate_distance is non-empty, holds only  *)
(* current direct neighbours of the source, holds no peer twice, and lists *)
(* its peers in the order of the source's adjacency list.                  *)
C5_ListsAreOrderedNeighbourSubsets ==
    HasResult =>
        /\ NoDuplicates(SourceNeighbours)
        /\ \A u \in DOMAIN Result :
              /\ Result[u] # << >>
              /\ Range(Result[u]) \subseteq RefNeighbours(my_peer_id)
              /\ NoDuplicates(Result[u])
              /\ Result[u] = SelectSeq(SourceNeighbours,
                                       LAMBDA v : v \in Range(Result[u]))

\* a two-element list whose order is that of the adjacency list and not
\* that of the peer ids
C5_Witness ==
    /\ HasResult
    /\ \E u \in DOMAIN Result :
          /\ Len(Result[u]) = 2
          /\ Result[u][1] > Result[u][2]

(* C6: contains_edge(a,b) = contains_edge(b,a) for all peers a # b, and    *)
(* contains_edge(a,b) is true exactly when the last operation on the pair  *)
(* {a,b} was add_edge.                                                     *)
C6_ContainsEdgeSymmetric ==
    \A a, b \in call_peers :
        a # b =>
            /\ contains_edge(graph, a, b) = contains_edge(graph, b, a)
            /\ contains_edge(graph, a, b) <=> Pair(a, b) \in edges

\* an edge was removed and another pair is still an edge
C6_Witness ==
    /\ graph.unused # << >>
    /\ \E a, b \in call_peers :
          /\ contains_edge(graph, a, b) /\ contains_edge(graph, b, a)
          /\ graph.p2id[a] > graph.p2id[b] /\ a < b

(* C7: the sum of all adjacency list lengths is even and equals            *)
(* 2 * total_active_edges, so compute_total_active_edges() equals          *)
(* total_active_edges(), its assertion never fails and the counter never   *)
(* underflows.                                                             *)
C7_TotalActiveEdges ==
    /\ adjacency_len_sum(graph) % 2 = 0
    /\ adjacency_len_sum(graph) = 2 * total_active_edges(graph)
    /\ compute_assert_ok(graph)
    /\ compute_total_active_edges(graph) = total_active_edges(graph)
    /\ total_active_edges(graph) >= 0

\* edges were added and removed, and some remain
C7_Witness ==
    /\ graph.unused # << >>
    /\ total_active_edges(graph) = 2
    /\ compute_total_active_edges(graph) = 2

(* C8: add_edge is idempotent: add_edge(a,b) twice, or add_edge(a,b) then  *)
(* add_edge(b,a), leaves the same Graph as add_edge(a,b) once.             *)
C8_AddEdgeIdempotent ==
    \A a, b \in call_peers :
        a # b =>
            LET once == add_edge(graph, a, b)
            IN  /\ add_edge(once, a, b) = once
                /\ add_edge(once, b, a) = once

\* an add_edge that takes an id from the free-list, after which the second
\* add_edge changes nothing
C8_Witness ==
    \E a, b \in call_peers :
        /\ a # b
        /\ graph.unused # << >>
        /\ a \notin DOMAIN graph.p2id
        /\ add_edge(graph, a, b) # graph
        /\ add_edge(add_edge(graph, a, b), a, b) = add_edge(graph, a, b)

(* C9: remove_edge(a,b) for a pair that is not an edge leaves the whole    *)
(* Graph unchanged, also when a or b is unknown to the graph.              *)
C9_RemoveAbsentEdgeIsNoOp ==
    \A a, b \in call_peers :
        (a # b /\ ~contains_edge(graph, a, b)) =>
            remove_edge(graph, a, b) = graph

\* a free id is available and one of the peers is unknown to the graph
C9_Witness ==
    \E a, b \in call_peers :
        /\ a # b
        /\ graph.unused # << >>
        /\ graph.total_active_edges > 0
        /\ a \in DOMAIN graph.p2id
        /\ b \notin DOMAIN graph.p2id
        /\ remove_edge(graph, a, b) = graph

----------------------------------------------------------------------------
\* the step is a find_route call that returned Ok
FindRouteOk == calls' = calls + 1 /\ last_call'.op = "find_route" /\ last_call'.ret.ok

(* C10: find_route on a PeerId target X with a non-empty peer_forwarding[X] *)
(* returns a member of peer_forwarding[X] whose route_nonce counter (an     *)
(* absent counter counts as 0) is minimal among the candidates, ties        *)
(* broken towards the smaller PeerId.                                       *)
C10_FindRoutePicksLeastUsed ==
    [][ /\ FindRouteOk =>
            LET X    == last_call'.target
                hop  == last_call'.ret.peer
            IN  /\ X \in DOMAIN peer_forwarding
                /\ hop \in Range(peer_forwarding[X])
                /\ \A q \in Range(peer_forwarding[X]) :
                      \/ CounterOf(route_nonce, hop) < CounterOf(route_nonce, q)
                      \/ /\ CounterOf(route_nonce, hop) = CounterOf(route_nonce, q)
                         /\ hop <= q
        /\ (calls' = calls + 1 /\ last_call'.op = "find_route"
              /\ last_call'.target \in DOMAIN peer_forwarding
              /\ peer_forwarding[last_call'.target] # << >>)
             => last_call'.ret.ok
      ]_vars

\* find_route returned the second peer of a list of three: it was tied
\* with a peer of larger id and below the first peer of the list
C10_Witness ==
    /\ last_call.op = "find_route"
    /\ last_call.ret.ok
    /\ LET routes == peer_forwarding[last_call.target]
           hop    == last_call.ret.peer
       IN  /\ Len(routes) = 3
           /\ hop = routes[2]
           /\ CounterOf(route_nonce, routes[1]) > CounterOf(route_nonce, hop)
           /\ \E q \in Range(routes) :
                 q > hop /\ CounterOf(route_nonce, q) = CounterOf(route_nonce, hop) - 1

----------------------------------------------------------------------------
\* the step is a find_route call on a PeerId target
FindRouteStep == calls' = calls + 1 /\ last_call'.op = "find_route"

(* C11: find_route on a PeerId target returns PeerNotFound when the target  *)
(* has no entry in peer_forwarding and Disconnected when its entry is the   *)
(* empty list; in both cases route_nonce and peer_forwarding are left as    *)
(* they were.                                                               *)
C11_FindRouteErrors ==
    [][ FindRouteStep =>
          LET X == last_call'.target
          IN  /\ X \notin DOMAIN peer_forwarding =>
                    /\ last_call'.ret = Err("PeerNotFound")
                    /\ route_nonce' = route_nonce
                    /\ peer_forwarding' = peer_forwarding
              /\ (X \in DOMAIN peer_forwarding /\ peer_forwarding[X] = << >>) =>
                    /\ last_call'.ret = Err("Disconnected")
                    /\ route_nonce' = route_nonce
                    /\ peer_forwarding' = peer_forwarding
      ]_vars

\* find_route returned Disconnected from a table that holds counters
C11_Witness ==
    /\ last_call.op = "find_route"
    /\ last_call.ret = Err("Disconnected")
    /\ peer_forwarding[last_call.target] = << >>
    /\ DOMAIN route_nonce # {}
    /\ calls >= 2

----------------------------------------------------------------------------
\* the largest and the smallest counter of the candidates before the call
MaxCounter(cache, cands) ==
    CHOOSE n \in {CounterOf(cache, q) : q \in cands} :
        \A q \in cands : CounterOf(cache, q) <= n

MinCounter(cache, cands) ==
    CHOOSE n \in {CounterOf(cache, q) : q \in cands} :
        \A q \in cands : CounterOf(cache, q) >= n

----------------------------------------------------------------------------
(* C13: with peer_forwarding[X] = [a,b,c], all counters absent at first and *)
(* 30 consecutive find_route(X) calls, the counters of a, b and c satisfy   *)
(* max - min <= 10 after every call, and at the end each of a, b, c has     *)
(* been returned at least 8 times.                                          *)
C13_RoundRobinIsFair ==
    LET cands == Range(peer_forwarding[RouteTarget])
    IN  /\ MaxCounter(route_nonce, cands) - MinCounter(route_nonce, cands)
              <= ROUND_ROBIN_MAX_NONCE_DIFFERENCE_ALLOWED
        /\ calls = RoundCalls => \A q \in cands : CounterOf(returned, q) >= 8

\* the thirtieth call has returned, from a list that is not in PeerId order
C13_Witness ==
    /\ calls = RoundCalls
    /\ last_call.ret.ok
    /\ peer_forwarding[RouteTarget][1] > peer_forwarding[RouteTarget][2]
    /\ \A q \in Range(peer_forwarding[RouteTarget]) : CounterOf(returned, q) >= 8

----------------------------------------------------------------------------
\* the step is a call on the route-back cache
BackStep(op) == calls' = calls + 1 /\ last_call'.op = op

\* hash h was accepted by add_route_back and has not been looked up by
\* find_route since; it is within the timeout, and the cache below capacity
Pending(h) ==
    /\ h \in DOMAIN route_back_log
    /\ route_back_log[h].fate = "pending"

WithinTimeoutAndCapacity(h) ==
    /\ now - route_back_log[h].at <= ROUTE_BACK_CACHE_EVICT_TIMEOUT
    /\ Cardinality(DOMAIN route_back) < ROUTE_BACK_CACHE_SIZE

(* C14: a route-back entry is consumed exactly once: after add_route_back   *)
(* (h,p) returned true, and within the timeout and capacity,                *)
(* compare_route_back(h,p) is true and leaves the entry in place, the first *)
(* find_route(Hash(h)) returns Ok(p) and removes it, and every              *)
(* find_route(Hash(h)) after that returns RouteBackNotFound until h is      *)
(* inserted again.                                                          *)
C14_RouteBackConsumedOnce ==
    [][ /\ BackStep("compare_route_back") =>
            LET h == last_call'.target
                p == last_call'.peer_id
            IN  (Pending(h) /\ WithinTimeoutAndCapacity(h) /\ route_back_log[h].peer = p)
                  => /\ last_call'.ret = Bool(TRUE)
                     /\ h \in DOMAIN route_back'
                     /\ route_back'[h].peer = p
        /\ BackStep("find_route_hash") =>
            LET h == last_call'.target
            IN  /\ (Pending(h) /\ WithinTimeoutAndCapacity(h))
                      => /\ last_call'.ret = Ok(route_back_log[h].peer)
                         /\ h \notin DOMAIN route_back'
                /\ ~Pending(h)
                      => /\ last_call'.ret = Err("RouteBackNotFound")
                         /\ h \notin DOMAIN route_back'
      ]_vars

\* the second find_route on a hash that the first one consumed
C14_Witness ==
    /\ last_call.op = "find_route_hash"
    /\ last_call.ret = Err("RouteBackNotFound")
    /\ last_call.target \in DOMAIN route_back_log
    /\ route_back_log[last_call.target].fate = "consumed"

----------------------------------------------------------------------------
\* the step is a call on the PeerStore
StoreStep(op) == calls' = calls + 1 /\ last_call'.op = op

\* the address of a known peer, and the peer bound to an address
AddrOf(ps, id) == ps.peer_states[id].peer_info.addr

BoundTo(ps, id, a) ==
    /\ id \in DOMAIN ps.peer_states
    /\ AddrOf(ps, id) = Some(a)
    /\ a \in DOMAIN ps.addr_peers
    /\ ps.addr_peers[a].peer_id = id

\* P1: peer_states and addr_peers index each other
SymmetricIndex(ps) ==
    /\ \A id \in DOMAIN ps.peer_states :
          AddrOf(ps, id) # None =>
              /\ AddrOf(ps, id)[1] \in DOMAIN ps.addr_peers
              /\ ps.addr_peers[AddrOf(ps, id)[1]].peer_id = id
    /\ \A a \in DOMAIN ps.addr_peers :
          /\ ps.addr_peers[a].peer_id \in DOMAIN ps.peer_states
          /\ AddrOf(ps, ps.addr_peers[a].peer_id) = Some(a)

(* C15: the symmetric index P1 holds after every mutation of the PeerStore  *)
(* (new, peer_connected, peer_disconnected, peer_ban, peer_unban,           *)
(* add_indirect_peers, add_trusted_peer, remove_expired) in any order:      *)
(* every peer with addr = Some(a) has addr_peers[a].peer_id equal to it,    *)
(* and every addr_peers entry (a, vp) points at a known peer whose addr is  *)
(* Some(a).                                                                 *)
C15_SymmetricIndex == SymmetricIndex(peer_store)

----------------------------------------------------------------------------
\* the maps of the PeerStore are as they were
MapsUnchanged ==
    /\ peer_store'.peer_states = peer_store.peer_states
    /\ peer_store'.addr_peers = peer_store.addr_peers

\* the peer is known and the address in its state is indexed at Signed
BoundAtSigned(ps, id) ==
    /\ id \in DOMAIN ps.peer_states
    /\ AddrOf(ps, id) # None
    /\ AddrOf(ps, id)[1] \in DOMAIN ps.addr_peers
    /\ ps.addr_peers[AddrOf(ps, id)[1]].trust_level = "Signed"

\* the step adds one peer, with an address, at trust Direct
AddDirectStep ==
    /\ StoreStep("add_trusted_peer")
    /\ last_call'.trust_level = "Direct"
    /\ last_call'.peer_info.addr # None

(* C16: adding a peer at trust Direct is ignored when that peer's current   *)
(* address is bound at trust Signed: peer_states and addr_peers are         *)
(* unchanged, the peer stays bound to its old address at Signed, and the    *)
(* newly claimed address does not enter the index.                          *)
C16_DirectIgnoredWhenSigned ==
    [][ AddDirectStep =>
          LET id == last_call'.peer_info.id
              a  == last_call'.peer_info.addr[1]
          IN  BoundAtSigned(peer_store, id) =>
                /\ MapsUnchanged
                /\ BoundAtSigned(peer_store', id)
                /\ AddrOf(peer_store', id) = AddrOf(peer_store, id)
                /\ a \notin DOMAIN peer_store.addr_peers =>
                      a \notin DOMAIN peer_store'.addr_peers
      ]_vars

\* a Direct claim of another address by a peer bound at Signed was ignored
C16_Witness ==
    /\ last_call.op = "add_trusted_peer"
    /\ last_call.trust_level = "Direct"
    /\ last_call.peer_info.addr # None
    /\ BoundAtSigned(peer_store, last_call.target)
    /\ AddrOf(peer_store, last_call.target) # last_call.peer_info.addr
    /\ last_call.peer_info.addr[1] \notin DOMAIN peer_store.addr_peers

(* C17: if peer A is bound to address a (at any trust level) and a          *)
(* different peer B that is not itself bound at Signed is added at a with   *)
(* trust Direct, then afterwards A is still known but has no address, B is  *)
(* bound to a with trust Direct, and addr_peers has one entry for a.        *)
C17_DirectTakesOverAddress ==
    [][ AddDirectStep =>
          LET B == last_call'.peer_info.id
              a == last_call'.peer_info.addr[1]
          IN  \A A \in DOMAIN peer_store.peer_states \ {B} :
                (BoundTo(peer_store, A, a) /\ ~BoundAtSigned(peer_store, B)) =>
                    /\ A \in DOMAIN peer_store'.peer_states
                    /\ AddrOf(peer_store', A) = None
                    /\ BoundTo(peer_store', B, a)
                    /\ peer_store'.addr_peers[a] = VerifiedPeer(B, "Direct")
      ]_vars

\* B holds at Direct the address of A, a peer that has connected and now
\* has no address
C17_Witness ==
    /\ last_call.op = "add_trusted_peer"
    /\ last_call.trust_level = "Direct"
    /\ last_call.peer_info.addr # None
    /\ LET B == last_call.target
           a == last_call.peer_info.addr[1]
       IN  /\ BoundTo(peer_store, B, a)
           /\ peer_store.addr_peers[a].trust_level = "Direct"
           /\ \E A \in DOMAIN peer_store.peer_states \ {B} :
                 /\ AddrOf(peer_store, A) = None
                 /\ peer_store.peer_states[A].status = Connected
                 /\ A \in DOMAIN peer_store.store
                 /\ peer_store.store[A].peer_info.addr = None

\* the step adds one peer, with an address, at trust Indirect
AddIndirectStep ==
    /\ StoreStep("add_indirect_peers")
    /\ Len(last_call'.peers) = 1
    /\ last_call'.peers[1].addr # None

(* C18: adding a peer with an address at trust Indirect installs the        *)
(* binding (at Indirect) only when both the peer id and the address are     *)
(* unknown to the store; in every other case the call succeeds and leaves   *)
(* peer_states and addr_peers unchanged.                                    *)
C18_IndirectOnlyWhenUnknown ==
    [][ AddIndirectStep =>
          LET id == last_call'.peers[1].id
              a  == last_call'.peers[1].addr[1]
          IN  /\ last_call'.ret = OkUnit
              /\ IF id \notin DOMAIN peer_store.peer_states
                    /\ a \notin DOMAIN peer_store.addr_peers
                 THEN /\ BoundTo(peer_store', id, a)
                      /\ peer_store'.addr_peers[a] = VerifiedPeer(id, "Indirect")
                 ELSE MapsUnchanged
      ]_vars

\* an Indirect report about the address of a peer known at Indirect, made
\* under another peer id, was ignored
C18_Witness ==
    /\ last_call.op = "add_indirect_peers"
    /\ Len(last_call.peers) = 1
    /\ last_call.peers[1].addr # None
    /\ LET id == last_call.peers[1].id
           a  == last_call.peers[1].addr[1]
       IN  /\ id \notin DOMAIN peer_store.peer_states
           /\ a \in DOMAIN peer_store.addr_peers
           /\ peer_store.addr_peers[a].trust_level = "Indirect"
           /\ peer_store.addr_peers[a].peer_id # id

\* the step is peer_connected on a peer with an address
ConnectedStep ==
    /\ StoreStep("peer_connected")
    /\ last_call'.peer_info.addr # None

(* C19: after peer_connected(info) with info.addr = Some(a), from any prior *)
(* state: the peer's status is Connected, the peer is bound to a with trust *)
(* Signed, any other peer previously bound to a has addr None, and the      *)
(* peer's previous address (if different from a) is no longer in            *)
(* addr_peers.                                                              *)
C19_PeerConnected ==
    [][ ConnectedStep =>
          LET id == last_call'.peer_info.id
              a  == last_call'.peer_info.addr[1]
          IN  /\ last_call'.ret = OkUnit
              /\ id \in DOMAIN peer_store'.peer_states
              /\ peer_store'.peer_states[id].status = Connected
              /\ BoundTo(peer_store', id, a)
              /\ peer_store'.addr_peers[a] = VerifiedPeer(id, "Signed")
              /\ \A other \in DOMAIN peer_store.peer_states \ {id} :
                    BoundTo(peer_store, other, a) =>
                        /\ other \in DOMAIN peer_store'.peer_states
                        /\ AddrOf(peer_store', other) = None
              /\ (id \in DOMAIN peer_store.peer_states
                    /\ AddrOf(peer_store, id) # None
                    /\ AddrOf(peer_store, id) # Some(a))
                   => AddrOf(peer_store, id)[1] \notin DOMAIN peer_store'.addr_peers
      ]_vars

\* the step is one of peer_disconnected, peer_ban, peer_unban
StatusStep ==
    /\ calls' = calls + 1
    /\ last_call'.op \in {"peer_disconnected", "peer_ban", "peer_unban"}

----------------------------------------------------------------------------
\* the peers persisted as banned, and the ids among the boot nodes
PersistedBanned(ps) == {p \in DOMAIN ps.store : is_banned(ps.store[p].status)}

BootIds(boot_nodes) == {boot_nodes[i].id : i \in 1..Len(boot_nodes)}

\* no Vec that healthy_peers may return holds peer p
NeverHealthy(ps, p) ==
    \A max_count \in 0..NumStorePeers : \A found \in healthy_peers(ps, max_count) :
        \A info \in found : info.id # p

\* the step constructs a new PeerStore over the persisted column
RestartStep == StoreStep("new")

\* the address that peer p is persisted with is free for it at a restart:
\* no boot node and no other persisted peer has it
PersistedAddrFree(ps, boot_nodes, p) ==
    /\ ps.store[p].peer_info.addr # None
    /\ \A i \in 1..Len(boot_nodes) :
          boot_nodes[i].id # p => boot_nodes[i].addr # ps.store[p].peer_info.addr
    /\ \A q \in DOMAIN ps.store \ {p} :
          ps.store[q].peer_info.addr # ps.store[p].peer_info.addr

\* the persisted peers, other than the banned ones, that the new instance
\* holds (those loaded from the column are the ones that are not boot nodes)
LoadedOthers == (DOMAIN peer_store.store \cap DOMAIN peer_store'.peer_states)
                    \ PersistedBanned(peer_store)

\* C21 as stated: every persisted ban is in the new instance
C21_BanSurvivesRestart_Original ==
    [][ RestartStep =>
          /\ \A p \in PersistedBanned(peer_store) :
                /\ p \in DOMAIN peer_store'.peer_states
                /\ is_banned(peer_store'.peer_states[p].status)
                /\ NeverHealthy(peer_store', p)
          /\ \A q \in LoadedOthers \ BootIds(last_call'.boot_nodes) :
                peer_store'.peer_states[q].status = NotConnected
      ]_vars

(* C21: a ban survives a restart for every peer that the new instance      *)
(* holds: a peer persisted as Banned is never returned by healthy_peers; it *)
(* is Banned whenever it is in the new instance, boot node or not, and it   *)
(* is there at least when its persisted address is free for it; a peer      *)
(* whose persisted address is missing or taken by a boot node is not        *)
(* loaded.  Every other persisted peer that is loaded and is not a boot     *)
(* node has status NotConnected.                                            *)
C21_BanSurvivesRestart ==
    [][ RestartStep =>
          /\ \A p \in PersistedBanned(peer_store) :
                /\ NeverHealthy(peer_store', p)
                /\ p \in DOMAIN peer_store'.peer_states =>
                      is_banned(peer_store'.peer_states[p].status)
                /\ PersistedAddrFree(peer_store, last_call'.boot_nodes, p) =>
                      p \in DOMAIN peer_store'.peer_states
                /\ (peer_store.store[p].peer_info.addr = None
                      /\ p \notin BootIds(last_call'.boot_nodes)) =>
                      p \notin DOMAIN peer_store'.peer_states
          /\ \A q \in LoadedOthers \ BootIds(last_call'.boot_nodes) :
                peer_store'.peer_states[q].status = NotConnected
      ]_vars

\* a restart over a column that holds a banned boot node and a peer that
\* was connected
C21_Witness ==
    /\ last_call.op = "new"
    /\ calls > 0
    /\ \E p \in BootIds(last_call.boot_nodes) :
          /\ p \in DOMAIN peer_store.peer_states
          /\ is_banned(peer_store.peer_states[p].status)
          /\ \E q \in DOMAIN peer_store.peer_states \ {p} :
                /\ peer_store.peer_states[q].status = NotConnected
                /\ q \in DOMAIN peer_store.store
                /\ peer_store.store[q].status = Connected

----------------------------------------------------------------------------
\* the peers that are not Connected and were last seen longer ago than the
\* configured expiration
Expired(ps) ==
    {id \in DOMAIN ps.peer_states :
        /\ ps.peer_states[id].status.kind # "Connected"
        /\ now - ps.peer_states[id].last_seen > peer_expiration_duration}

----------------------------------------------------------------------------
\* the peers unconnected_peer may offer: NotConnected or Unknown, with a known
\* address, and not ignored
Candidates(ps, ignored) ==
    {id \in DOMAIN ps.peer_states :
        /\ ps.peer_states[id].status.kind \in {"NotConnected", "Unknown"}
        /\ ps.peer_states[id].peer_info.addr # None
        /\ id \notin ignored}

(* C23: unconnected_peer(ignore_fn) returns Some(p) only for a peer p whose *)
(* status is NotConnected or Unknown, whose address is known and for which  *)
(* ignore_fn is false, and returns None exactly when no such peer exists;   *)
(* it never returns a Connected or Banned peer and does not modify the      *)
(* store.                                                                   *)
C23_UnconnectedPeer ==
    [][ StoreStep("unconnected_peer") =>
          LET found == last_call'.found
              cands == Candidates(peer_store, last_call'.ignored)
          IN  /\ found # None =>
                    /\ found[1].id \in cands
                    /\ peer_store.peer_states[found[1].id].peer_info = found[1]
                    /\ peer_store.peer_states[found[1].id].status.kind
                          \notin {"Connected", "Banned"}
              /\ found = None <=> cands = {}
              /\ peer_store' = peer_store
      ]_vars

\* unconnected_peer returned a peer while another known peer was Connected,
\* Banned, ignored or without an address
C23_Witness ==
    /\ last_call.op = "unconnected_peer"
    /\ last_call.found # None
    /\ \E q \in DOMAIN peer_store.peer_states :
          /\ q # last_call.found[1].id
          /\ q \notin Candidates(peer_store, last_call.ignored)

----------------------------------------------------------------------------
EdgeStep(op) == calls' = calls + 1 /\ last_call'.op = op

(* C24: for two distinct peers with valid keys and any odd nonce, the Edge  *)
(* built by Edge::new or build_with_secret_key from each party's            *)
(* half-signature made by EdgeInfo::new passes verify(), in whichever order *)
(* the two peers are passed, and the built edge has key.0 < key.1 with      *)
(* signature_i made by key_i.                                               *)
C24_BuiltEdgeVerifies ==
    [][ /\ EdgeStep("Edge::new") \/ EdgeStep("build_with_secret_key")
        /\ last_call'.target % 2 = 1
        => /\ verify(edge')
           /\ edge'.key[1] < edge'.key[2]
           /\ edge'.key \in {<<last_call'.peer0, last_call'.peer1>>,
                              <<last_call'.peer1, last_call'.peer0>>}
           /\ edge'.nonce = last_call'.target
           /\ edge'.signature0.signer = SecretKeyOf(edge'.key[1])
           /\ edge'.signature1.signer = SecretKeyOf(edge'.key[2])
      ]_vars

\* Edge::new was given the larger peer first, with an odd nonce
C24_Witness ==
    /\ last_call.op = "Edge::new"
    /\ last_call.peer0 > last_call.peer1
    /\ last_call.target % 2 = 1
    /\ verify(edge)

\* the signature over the nonce of the edge by the peer that removal_info
\* designates
RemovalSignature(e, my_id) ==
    <<my_id = e.key[1], sign(SecretKeyOf(my_id), build_hash(e.key[1], e.key[2], e.nonce))>>

(* C25: for a verified Added edge e, remove_edge called by either endpoint  *)
(* with its own secret key returns an edge with the same key, nonce         *)
(* e.nonce + 1, both Add signatures preserved and removal_info =            *)
(* (my_peer_id == key.0, signature over hash(key.0, key.1, nonce + 1)); the *)
(* edge has type Removed and passes verify().  remove_edge on an edge of    *)
(* type Removed is an assertion failure.                                    *)
C25_RemoveEdge ==
    [][ EdgeStep("Edge::remove_edge") =>
          /\ ( /\ verify(edge)
               /\ edge_type(edge) = "Added"
               /\ last_call'.peer0 \in {edge.key[1], edge.key[2]}
               /\ last_call'.secret_key = SecretKeyOf(last_call'.peer0) )
             => /\ last_call'.ret = OkUnit
                /\ edge'.key = edge.key
                /\ edge'.nonce = edge.nonce + 1
                /\ edge'.signature0 = edge.signature0
                /\ edge'.signature1 = edge.signature1
                /\ edge'.removal_info = Some(RemovalSignature(edge', last_call'.peer0))
                /\ edge_type(edge') = "Removed"
                /\ verify(edge')
          /\ edge_type(edge) = "Removed" => last_call'.ret = Err("panic")
      ]_vars

\* the invariants of an edge
E1(e) == e.key[1] < e.key[2]
E2(e) == (edge_type(e) = "Added") <=> (e.nonce % 2 = 1)
E3(e) ==
    /\ e.nonce % 2 = 1 => e.removal_info = None
    /\ e.nonce % 2 = 0 => e.removal_info # None /\ e.nonce # 0
E4(e) ==
    LET add_nonce == IF e.nonce % 2 = 1 THEN e.nonce ELSE e.nonce - 1
        data == build_hash(e.key[1], e.key[2], add_nonce)
    IN  /\ e.signature0 = sign(SecretKeyOf(e.key[1]), data)
        /\ e.signature1 = sign(SecretKeyOf(e.key[2]), data)
E5(e) ==
    e.nonce % 2 = 0 =>
        /\ e.removal_info # None
        /\ LET designated == IF e.removal_info[1][1] THEN e.key[1] ELSE e.key[2]
           IN  e.removal_info[1][2] =
                  sign(SecretKeyOf(designated), build_hash(e.key[1], e.key[2], e.nonce))

(* C26: verify() returns true only for edges that satisfy all of E1-E5:     *)
(* key.0 < key.1 strictly; the type is Added iff the nonce is odd; an odd   *)
(* nonce has no removal_info and an even nonce has one and is not 0; both   *)
(* half-signatures are the endpoints' over the Add nonce; for Removed the   *)
(* designated party's removal signature covers the edge's own nonce.  It    *)
(* returns false, and never panics, otherwise.                              *)
C26_VerifyEnforcesInvariants ==
    [][ EdgeStep("verify") =>
          /\ last_call'.ret \in {Bool(TRUE), Bool(FALSE)}
          /\ last_call'.ret = Bool(TRUE) =>
                E1(edge) /\ E2(edge) /\ E3(edge) /\ E4(edge) /\ E5(edge)
      ]_vars

(* C27: next_nonce(n) is n + 2 when n is odd and n + 1 when n is even; for  *)
(* every n below the largest u64 the result is odd and greater than n.      *)
C27_NextNonce ==
    [][ EdgeStep("next_nonce") /\ last_call'.target < MaxU64 =>
          LET n == last_call'.target
          IN  /\ last_call'.ret = Ok(IF n % 2 = 1 THEN n + 2 ELSE n + 1)
              /\ last_call'.ret.peer % 2 = 1
              /\ last_call'.ret.peer > n
      ]_vars

\* next_nonce(3) returned 5
C27_Witness ==
    /\ last_call.op = "next_nonce"
    /\ last_call.target = 3
    /\ last_call.ret = Ok(5)

----------------------------------------------------------------------------
LocalStep(op) == calls' = calls + 1 /\ last_call'.op = op

CalledKey(call) == <<call.key0, call.key1>>

(* C28 as stated: for a key containing my_peer_id and any nonce, including  *)
(* 0, is_local_edge_newer(key, nonce) returns true iff local_edges_info has *)
(* no entry for the key or the stored edge's nonce is less than nonce; it   *)
(* does not modify the routing table, and it is an assertion failure when   *)
(* my_peer_id is not in the key.                                            *)
C28_IsLocalEdgeNewer_Original ==
    [][ LocalStep("is_local_edge_newer") =>
          LET key == CalledKey(last_call')
              nonce == last_call'.target
          IN  /\ my_peer_id \in {key[1], key[2]} =>
                    last_call'.ret =
                       Bool(\/ key \notin DOMAIN local_edges_info
                            \/ local_edges_info[key].nonce < nonce)
              /\ my_peer_id \notin {key[1], key[2]} => last_call'.ret = Err("panic")
              /\ local_edges_info' = local_edges_info
      ]_vars

(* C28: for a key containing my_peer_id, is_local_edge_newer(key, nonce)    *)
(* returns true iff the stored edge's nonce is less than nonce, or there is *)
(* no entry for the key and nonce is greater than 0; it does not modify the *)
(* routing table, and it is an assertion failure when my_peer_id is not in  *)
(* the key.                                                                 *)
C28_IsLocalEdgeNewer ==
    [][ LocalStep("is_local_edge_newer") =>
          LET key == CalledKey(last_call')
              nonce == last_call'.target
          IN  /\ my_peer_id \in {key[1], key[2]} =>
                    last_call'.ret =
                       Bool(\/ key \notin DOMAIN local_edges_info /\ nonce > 0
                            \/ key \in DOMAIN local_edges_info
                                 /\ local_edges_info[key].nonce < nonce)
              /\ my_peer_id \notin {key[1], key[2]} => last_call'.ret = Err("panic")
              /\ local_edges_info' = local_edges_info
      ]_vars

\* is_local_edge_newer was asked about nonce 0 under a key without an
\* entry, and said no
C28_Witness ==
    /\ last_call.op = "is_local_edge_newer"
    /\ last_call.target = 0
    /\ my_peer_id \in {last_call.key0, last_call.key1}
    /\ CalledKey(last_call) \notin DOMAIN local_edges_info
    /\ last_call.ret = Bool(FALSE)
    /\ local_edges_info # EmptyMap

----------------------------------------------------------------------------
PingStep == calls' = calls + 1 /\ last_call'.op = "get_ping"

\* the get_ping calls made so far for a peer
PingsOf(peer_id) ==
    IF peer_id \in DOMAIN ping_log THEN ping_log[peer_id].calls ELSE 0

NeverEvicted(peer_id) ==
    peer_id \in DOMAIN ping_log => ~ping_log[peer_id].evicted

(* C29: for each peer, the k-th call of get_ping(peer) returns k - 1 as     *)
(* long as the peer's entry has not been evicted from the 1,000-entry LRU:  *)
(* the first call returns 0, each call returns the value before the         *)
(* increment, and calls for other peers do not affect the sequence.         *)
C29_GetPingCounts ==
    [][ PingStep /\ NeverEvicted(last_call'.target) =>
          /\ last_call'.ret = Ok(PingsOf(last_call'.target))
          /\ \A q \in LruKeys(last_ping_nonce) \cap LruKeys(last_ping_nonce') :
                q # last_call'.target =>
                   LruValue(last_ping_nonce', q) = LruValue(last_ping_nonce, q)
      ]_vars

\* the third get_ping of a peer returned 2, after the entry of another peer
\* had been evicted
C29_Witness ==
    /\ last_call.op = "get_ping"
    /\ last_call.ret = Ok(2)
    /\ PingsOf(last_call.target) = 3
    /\ NeverEvicted(last_call.target)
    /\ \E q \in DOMAIN ping_log : ping_log[q].evicted

----------------------------------------------------------------------------
AccountStep(op) == calls' = calls + 1 /\ last_call'.op = op

\* the announcement the directory holds for an account before a call: the
\* cached one, else the row of the store when the store can be read
Known(account_id, readable) ==
    IF account_id \in LruKeys(account_peers)
    THEN Some(LruValue(account_peers, account_id))
    ELSE IF readable /\ account_id \in DOMAIN account_store
    THEN Some(account_store[account_id])
    ELSE None

Announced(account_id) == account_id \in DOMAIN account_log

\* what add_account does, whether or not its write goes through
AddAccountKeepsEntry ==
    AccountStep("add_account") =>
        /\ last_call'.ret = OkUnit
        /\ last_call'.target \in LruKeys(account_peers')
        /\ LruValue(account_peers', last_call'.target) = last_call'.announce

(* C30 as stated: after add_account(a), account_owner(a.account_id) returns *)
(* a.peer_id, from the cache, or from the store with the cache repopulated  *)
(* when the entry had been evicted and the write had succeeded;             *)
(* contains_account(b) is true iff the known announcement for b.account_id  *)
(* has b's epoch_id; for an account never announced account_owner returns   *)
(* AccountNotFound and contains_account false; a failing store write in     *)
(* add_account is not reported and leaves the in-memory entry in place.     *)
C30_AccountDirectory_Original ==
    [][ /\ AccountStep("account_owner") =>
              LET id == last_call'.target
              IN  /\ ~Announced(id) => last_call'.ret = Err("AccountNotFound")
                  /\ ( /\ Announced(id)
                       /\ ~account_log[id].evicted \/ account_log[id].wrote )
                     => /\ last_call'.ret = Ok(account_log[id].announce.peer_id)
                        /\ id \in LruKeys(account_peers')
        /\ AccountStep("contains_account") =>
              LET b == last_call'.announce
                  known == Known(b.account_id, TRUE)
              IN  /\ last_call'.ret =
                        Bool(known # None /\ known[1].epoch_id = b.epoch_id)
                  /\ ~Announced(b.account_id) => last_call'.ret = Bool(FALSE)
        /\ AddAccountKeepsEntry
      ]_vars

(* C30: as above, where the answers that come from the store hold when the  *)
(* read of the store succeeds; when the entry is not cached and the read    *)
(* fails, account_owner returns AccountNotFound and contains_account false, *)
(* also for an announced account.  In every case account_owner answers with *)
(* the peer of the cached announcement, else of the row that the store      *)
(* returns.                                                                 *)
C30_AccountDirectory ==
    [][ /\ AccountStep("account_owner") =>
              LET id == last_call'.target
              IN  /\ ~Announced(id) => last_call'.ret = Err("AccountNotFound")
                  /\ ( /\ Announced(id)
                       /\ \/ ~account_log[id].evicted
                          \/ account_log[id].wrote /\ last_call'.read_ok )
                     => /\ last_call'.ret = Ok(account_log[id].announce.peer_id)
                        /\ id \in LruKeys(account_peers')
                  /\ id \notin LruKeys(account_peers) /\ ~last_call'.read_ok
                     => last_call'.ret = Err("AccountNotFound")
                  /\ LET known == Known(id, last_call'.read_ok)
                     IN  last_call'.ret = IF known # None
                                          THEN Ok(known[1].peer_id)
                                          ELSE Err("AccountNotFound")
        /\ AccountStep("contains_account") =>
              LET b == last_call'.announce
                  known == Known(b.account_id, last_call'.read_ok)
              IN  /\ last_call'.ret =
                        Bool(known # None /\ known[1].epoch_id = b.epoch_id)
                  /\ ~Announced(b.account_id) => last_call'.ret = Bool(FALSE)
        /\ AddAccountKeepsEntry
      ]_vars

\* account_owner answered from the store, and put the entry back, for an
\* account whose write had succeeded and whose entry had been evicted
C30_Witness ==
    /\ last_call.op = "account_owner"
    /\ Announced(last_call.target)
    /\ account_log[last_call.target].evicted
    /\ account_log[last_call.target].wrote
    /\ last_call.ret = Ok(account_log[last_call.target].announce.peer_id)
    /\ last_call.target \in LruKeys(account_peers)
    /\ LruSize(account_peers) = ANNOUNCE_ACCOUNT_CACHE_SIZE

----------------------------------------------------------------------------
Ids(g) == 0 .. VecLen(g.id2p) - 1

UnusedIds(g) == {id \in Ids(g) : ~g.used[id]}

\* the add_edge/remove_edge calls of the run that changed the graph
OpsDone == MaxOps - ops_left

(* C31: in every Graph state reachable by add_edge/remove_edge an id is     *)
(* marked unused iff it is not the source id and its adjacency list is      *)
(* empty; the free-list contains exactly the unused ids, each at most once; *)
(* so the two assertions in get_id never fail.                              *)
C31_UnusedIds ==
    /\ \A id \in Ids(graph) :
          ~graph.used[id] <=> (id # graph.source_id /\ graph.adjacency[id] = << >>)
    /\ Range(graph.unused) = UnusedIds(graph)
    /\ NoDuplicates(graph.unused)
    /\ \A p \in call_peers, q \in call_peers :
          LET r0 == get_id(graph, p)
          IN  r0.ok /\ get_id(r0.g, q).ok

\* two ids are on the free-list while another peer is still connected
C31_Witness ==
    /\ Len(graph.unused) = 2
    /\ \E id \in Ids(graph) : id # graph.source_id /\ graph.used[id]
    /\ OpsDone >= 4

(* C32: in every reachable Graph state id 0 is mapped to my_peer_id and is  *)
(* always used; p2id is injective; p2id contains a peer iff its id is used; *)
(* and id2p[p2id[p]] = p for every peer in p2id.                            *)
C32_TablesConsistent ==
    /\ graph.source_id = 0
    /\ graph.id2p[0] = my_peer_id
    /\ my_peer_id \in DOMAIN graph.p2id
    /\ graph.p2id[my_peer_id] = 0
    /\ graph.used[0]
    /\ \A p \in DOMAIN graph.p2id, q \in DOMAIN graph.p2id :
          graph.p2id[p] = graph.p2id[q] => p = q
    /\ {graph.p2id[p] : p \in DOMAIN graph.p2id} = Ids(graph) \ UnusedIds(graph)
    /\ \A p \in DOMAIN graph.p2id : graph.id2p[graph.p2id[p]] = p

\* after an add, a remove and an add, peer 3 sits in slot 1 and the tables
\* have two slots
C32_Witness ==
    /\ OpsDone = 3
    /\ edges = {Pair(my_peer_id, 3)}
    /\ 3 \in DOMAIN graph.p2id
    /\ graph.p2id[3] = 1
    /\ graph.id2p[1] = 3
    /\ VecLen(graph.id2p) = 2

(* C33: ids are reused before new ones are allocated: get_id takes an id    *)
(* from the free-list whenever it is non-empty and appends only otherwise,  *)
(* so the number of id slots never exceeds the largest number of peers,     *)
(* source included, that were present in the graph at the same time.        *)
C33_SlotsBoundedByPeak ==
    /\ VecLen(graph.id2p) <= peak_peers
    /\ VecLen(graph.used) = VecLen(graph.id2p)
    /\ VecLen(graph.adjacency) = VecLen(graph.id2p)
    /\ \A p \in call_peers \ DOMAIN graph.p2id :
          LET r == get_id(graph, p)
          IN  IF graph.unused # << >>
              THEN /\ VecLen(r.g.id2p) = VecLen(graph.id2p)
                   /\ r.id = Last(graph.unused)
              ELSE /\ VecLen(r.g.id2p) = VecLen(graph.id2p) + 1
                   /\ r.id = VecLen(graph.id2p)

\* three peers were present at once, one left and another took its slot
C33_Witness ==
    /\ OpsDone = 4
    /\ peak_peers = 3
    /\ VecLen(graph.id2p) = 3
    /\ DOMAIN graph.p2id = {my_peer_id, 2, 3}
    /\ 1 \notin DOMAIN graph.p2id
    /\ graph.unused = << >>
    /\ edges = {Pair(my_peer_id, 2), Pair(my_peer_id, 3)}

----------------------------------------------------------------------------
CycleStep(op) == calls' = calls + 1 /\ last_call'.op = op

(* C34: across successive add/remove cycles of one peer pair, where each    *)
(* removal is produced by remove_edge from the current Added edge and each  *)
(* new Add uses next_nonce of the latest nonce, the edge nonces strictly    *)
(* increase, Added edges carry odd nonces and Removed edges even nonces,    *)
(* and is_local_edge_newer accepts each successive edge of the cycle.       *)
C34_CycleNoncesIncrease ==
    [][ /\ CycleStep("cycle_remove") =>
              /\ last_call'.ret = Bool(TRUE)
              /\ edge'.nonce > edge.nonce
              /\ edge'.nonce % 2 = 0
              /\ edge'.removal_info # None
              /\ local_edges_info'[edge'.key] = edge'
        /\ CycleStep("cycle_add") =>
              /\ last_call'.ret = Bool(TRUE)
              /\ edge'.nonce > edge.nonce
              /\ edge'.nonce % 2 = 1
              /\ edge'.removal_info = None
              /\ local_edges_info'[edge'.key] = edge'
      ]_vars

\* the party that the field's documentation lets the bool of removal_info
\* name: false for Peer0 (key.0), true for Peer1 (key.1)
DocumentedParty(e) == IF e.removal_info[1][1] THEN e.key[2] ELSE e.key[1]

(* C35: in removal_info the bool names the removing party as documented on  *)
(* the field, false when Peer0 (key.0) removes the edge and true when Peer1 *)
(* (key.1) removes it, both in the value that remove_edge writes and in the *)
(* party whose key verify() checks the removal signature against.           *)
C35_RemovalPartyAsDocumented ==
    [][ /\ ( /\ EdgeStep("Edge::remove_edge")
              /\ last_call'.ret = OkUnit
              /\ verify(edge)
              /\ edge.key[1] # edge.key[2]
              /\ last_call'.peer0 \in {edge.key[1], edge.key[2]} ) =>
                 DocumentedParty(edge') = last_call'.peer0
        /\ ( /\ EdgeStep("verify")
              /\ last_call'.ret = Bool(TRUE)
              /\ edge_type(edge) = "Removed"
              /\ edge.key[1] # edge.key[2] ) =>
                 signature_verify(edge.removal_info[1][2], edge_hash(edge),
                                  public_key(DocumentedParty(edge)))
      ]_vars

----------------------------------------------------------------------------
PongStep(op) == calls' = calls + 1 /\ last_call'.op = op

\* the pong that the step has handed to add_pong
StepPong == Pong(last_call'.nonce, last_call'.target)

\* add_pong returns a round trip only for a ping that sending_ping recorded
\* and no pong has answered since, and a second pong with the same nonce
\* and source gets None
PongConsumes ==
    PongStep("add_pong") =>
        /\ last_call'.ret.ok =>
              /\ <<StepPong.source, StepPong.nonce>> \in DOMAIN pong_log
              /\ PingPending(waiting_pong, StepPong.source, StepPong.nonce)
        /\ ~PingPending(waiting_pong', StepPong.source, StepPong.nonce)
        /\ add_pong(waiting_pong', pong_info', StepPong, calls').ret = None

\* in every case the count of pong_info for the nonce grows by 1
PongCounted ==
    PongStep("add_pong") =>
        PongCount(pong_info', StepPong.nonce) = PongCount(pong_info, StepPong.nonce) + 1

\* sending_ping(nonce, target) pushes the ping (t, m) out of waiting_pong
PushesOut(t_waiting_pong, nonce, target, t, m) ==
    \/ /\ t = target
       /\ m # nonce
       /\ ~PingPending(t_waiting_pong, target, nonce)
       /\ LruSize(LruValue(t_waiting_pong, target)) = WAITING_PONG_SIZE
       /\ LruValue(t_waiting_pong, target)[1] = LruEntry(m, LruValue(LruValue(t_waiting_pong, target), m))
    \/ /\ t # target
       /\ target \notin LruKeys(t_waiting_pong)
       /\ LruSize(t_waiting_pong) = PING_PONG_CACHE_SIZE
       /\ t_waiting_pong[1].run = 1
       /\ t_waiting_pong[1].key = t

(* C36, as stated: add_pong(pong) returns a round-trip time only if         *)
(* sending_ping(pong.nonce, pong.source) was recorded and is still pending, *)
(* and it consumes that expectation; a pending expectation is lost once     *)
(* more than 10 later nonces were recorded for the same target; in every    *)
(* case the pong_info count for that nonce grows by 1.                      *)
C36_AddPong_Original ==
    [][ /\ PongConsumes
        /\ PongCounted
        /\ ( /\ PongStep("add_pong")
              /\ <<StepPong.source, StepPong.nonce>> \in DOMAIN pong_log
              /\ LaterCount(pong_log, StepPong.source, StepPong.nonce) > WAITING_PONG_SIZE ) =>
                 ~last_call'.ret.ok
      ]_vars

(* C36, amended: add_pong(pong) returns a round-trip time only if           *)
(* sending_ping(pong.nonce, pong.source) was recorded and is still pending, *)
(* and it consumes that expectation; a pending expectation stays while      *)
(* fewer than 10 later nonces were recorded for its target and the target   *)
(* stays in waiting_pong, and it is lost exactly when sending_ping records  *)
(* a nonce that is not waiting while 10 nonces of the target wait and the   *)
(* expectation is the oldest of them, or when its target is the oldest of   *)
(* 1000 and a new target comes; answered nonces do not count.  In every     *)
(* case the pong_info count for that nonce grows by 1.                      *)
C36_AddPong ==
    [][ /\ PongConsumes
        /\ PongCounted
        /\ \A k \in DOMAIN pong_log :
              /\ ( /\ PongStep("sending_ping")
                    /\ PingPending(waiting_pong, k[1], k[2]) ) =>
                       ( ~PingPending(waiting_pong', k[1], k[2])
                           <=> PushesOut(waiting_pong, last_call'.nonce,
                                         last_call'.target, k[1], k[2]) )
              /\ ( /\ PongStep("add_pong")
                    /\ PingPending(waiting_pong, k[1], k[2])
                    /\ k # <<StepPong.source, StepPong.nonce>> ) =>
                       PingPending(waiting_pong', k[1], k[2])
              /\ ( /\ ~pong_log[k].dropped
                    /\ LaterCount(pong_log, k[1], k[2]) < WAITING_PONG_SIZE ) =>
                       PingPending(waiting_pong, k[1], k[2])
      ]_vars

\* a ping was lost to the tenth nonce recorded after it, and its pong got None
C36_Witness ==
    /\ last_call.op = "add_pong"
    /\ last_call.expected
    /\ last_call.later = WAITING_PONG_SIZE
    /\ last_call.ret = Err("None")
    /\ calls = 2
    /\ PongCount(pong_info, last_call.nonce) = 1

----------------------------------------------------------------------------
\* the boot node at place i has an address and is the first of the list
\* with its id and the first with its address
FirstOfItsKind(boot_nodes, i) ==
    /\ boot_nodes[i].addr # None
    /\ \A j \in 1..(i - 1) :
          /\ boot_nodes[j].id # boot_nodes[i].id
          /\ boot_nodes[j].addr # boot_nodes[i].addr

\* peer id is bound to address a at the trust level
BoundAt(ps, id, a, trust_level) ==
    /\ BoundTo(ps, id, a)
    /\ ps.addr_peers[a] = VerifiedPeer(id, trust_level)

\* the address of the persisted peer p is that of a boot node that is bound
CollidesWithBoot(ps, boot_nodes, p) ==
    \E i \in 1..Len(boot_nodes) :
        /\ FirstOfItsKind(boot_nodes, i)
        /\ boot_nodes[i].addr = ps.store[p].peer_info.addr

(* C37: after PeerStore::new, every boot node that has an address and is    *)
(* the first with its id and its address is bound at trust Signed; every    *)
(* persisted non-boot peer whose address is not already taken is loaded and *)
(* bound at trust Indirect, also when it was bound at Signed before; a      *)
(* persisted peer whose address collides with a boot node's address is not  *)
(* loaded into memory while its row on disk stays untouched; and P1 holds   *)
(* in the resulting state.                                                  *)
C37_NewLoadsPeers ==
    [][ StoreStep("new") =>
          LET boot_nodes == last_call'.boot_nodes
          IN  /\ \A i \in 1..Len(boot_nodes) :
                    FirstOfItsKind(boot_nodes, i) =>
                        BoundAt(peer_store', boot_nodes[i].id,
                                boot_nodes[i].addr[1], "Signed")
              /\ \A p \in DOMAIN peer_store.store \ BootIds(boot_nodes) :
                    /\ PersistedAddrFree(peer_store, boot_nodes, p) =>
                          /\ BoundAt(peer_store', p,
                                     peer_store.store[p].peer_info.addr[1], "Indirect")
                          /\ peer_store'.peer_states[p].peer_info =
                                 peer_store.store[p].peer_info
                    /\ CollidesWithBoot(peer_store, boot_nodes, p) =>
                          p \notin DOMAIN peer_store'.peer_states
              /\ peer_store'.store = peer_store.store
              /\ SymmetricIndex(peer_store')
      ]_vars

\* a restart with two entries for one boot node over a column that holds a
\* peer at the address of the first entry: the boot node is bound at Signed
\* to that address, the persisted peer is not loaded and its row stays
C37_Witness ==
    /\ last_call.op = "new"
    /\ calls = 3
    /\ last_call.boot_nodes = <<PeerInfo(1, Some(1)), PeerInfo(1, Some(2))>>
    /\ DOMAIN peer_store.store = {2}
    /\ peer_store.store[2].peer_info = PeerInfo(2, Some(1))
    /\ BoundAt(peer_store, 1, 1, "Signed")
    /\ DOMAIN peer_store.peer_states = {1}
    /\ DOMAIN peer_store.addr_peers = {1}

----------------------------------------------------------------------------
\* the persisted row of peer p is its in-memory KnownPeerState
WrittenThrough(ps, p) ==
    /\ p \in DOMAIN ps.peer_states
    /\ p \in DOMAIN ps.store
    /\ ps.store[p] = ps.peer_states[p]

\* the peers that had an address before the step and have none after it
LostAddress ==
    {q \in DOMAIN peer_store.peer_states \cap DOMAIN peer_store'.peer_states :
        AddrOf(peer_store, q) # None /\ AddrOf(peer_store', q) = None}

\* the binding of peer p: the address in its state, and the entries of the
\* index that name it
BindingOf(ps, p) ==
    [addr |-> IF p \in DOMAIN ps.peer_states THEN AddrOf(ps, p) ELSE None,
     index |-> {<<a, ps.addr_peers[a]>> :
                   a \in {b \in DOMAIN ps.addr_peers : ps.addr_peers[b].peer_id = p}}]

\* the step has changed the binding of peer p
BindingChanged(p) == BindingOf(peer_store', p) # BindingOf(peer_store, p)

(* C38: address-binding changes are written through for both affected      *)
(* peers: after any successful add at any trust level that changes a        *)
(* binding, and after peer_connected, peer_disconnected, peer_ban and       *)
(* peer_unban, the persisted row of the peer operated on and of any peer    *)
(* that lost its address equals that peer's in-memory KnownPeerState.       *)
C38_WrittenThrough ==
    [][ /\ ( /\ StoreStep("add_trusted_peer")
              /\ last_call'.ret.ok
              /\ BindingChanged(last_call'.target) ) =>
                 \A p \in {last_call'.target} \cup LostAddress :
                    WrittenThrough(peer_store', p)
        /\ ( /\ StoreStep("add_indirect_peers")
              /\ last_call'.ret.ok ) =>
                 \A i \in 1..Len(last_call'.peers) :
                    BindingChanged(last_call'.peers[i].id) =>
                       \A p \in {last_call'.peers[i].id} \cup LostAddress :
                          WrittenThrough(peer_store', p)
        /\ ( /\ \/ StoreStep("peer_connected")
                 \/ StoreStep("peer_disconnected")
                 \/ StoreStep("peer_ban")
                 \/ StoreStep("peer_unban")
              /\ last_call'.ret.ok ) =>
                 \A p \in {last_call'.target} \cup LostAddress :
                    WrittenThrough(peer_store', p)
      ]_vars

\* a peer was connected at the address of another peer, which lost the
\* address: both rows are what the memory holds
C38_Witness ==
    /\ last_call.op = "peer_connected"
    /\ last_call.peer_info = PeerInfo(2, Some(1))
    /\ DOMAIN peer_store.peer_states = {1, 2}
    /\ AddrOf(peer_store, 1) = None
    /\ BoundTo(peer_store, 2, 1)
    /\ WrittenThrough(peer_store, 1)
    /\ WrittenThrough(peer_store, 2)
    /\ peer_store.peer_states[1].status = Connected

----------------------------------------------------------------------------
\* PeerStore::is_banned
peer_is_banned(ps, peer_id) ==
    IF peer_id \in DOMAIN ps.peer_states
    THEN is_banned(ps.peer_states[peer_id].status)
    ELSE FALSE

(* C39: once peer_ban(p) has succeeded, p stays banned (is_banned(p) is     *)
(* true and healthy_peers never returns p) through any sequence of other    *)
(* PeerStore operations, including peer_connected(p), peer_disconnected(p)  *)
(* and adds at any trust level, until peer_unban(p) is called or p is       *)
(* removed by remove_expired.                                               *)
C39_BanSticks ==
    [][ \A p \in StorePeers :
          ( /\ peer_is_banned(peer_store, p)
            /\ calls' = calls + 1
            /\ last_call'.op # "new"
            /\ ~(last_call'.op = "peer_unban" /\ last_call'.target = p) ) =>
               \/ /\ peer_is_banned(peer_store', p)
                  /\ NeverHealthy(peer_store', p)
               \/ /\ last_call'.op = "remove_expired"
                  /\ p \notin DOMAIN peer_store'.peer_states
      ]_vars

----------------------------------------------------------------------------
\* the most calls in a row that return one candidate, and the most calls in
\* a row that do not return a candidate out of n
MaxStreak == ROUND_ROBIN_MAX_NONCE_DIFFERENCE_ALLOWED + 1
MaxIdle(n) == MaxStreak * (n - 1)

(* C40: for a fixed peer_forwarding[X] with at least two candidates and any *)
(* initial route_nonce counters, in a run of consecutive find_route(X)      *)
(* calls no candidate is returned more than 11 times in a row, and every    *)
(* candidate of X is returned again within a bounded number of calls: at    *)
(* most 11 calls for each other candidate go by without it.                 *)
C40_ClampBoundsStreaks ==
    last_call.op = "find_route" =>
        LET routes == peer_forwarding[RouteTarget]
        IN  /\ last_call.ret.ok
            /\ last_call.streak <= MaxStreak
            /\ \A q \in Range(routes) : last_call.idle[q] <= MaxIdle(Len(routes))

\* one of three candidates has waited for 22 calls while the other two,
\* which started without counters far below it, were returned 11 times each
C40_Witness ==
    /\ last_call.op = "find_route"
    /\ Len(peer_forwarding[RouteTarget]) = 3
    /\ \E q \in Range(peer_forwarding[RouteTarget]) :
          /\ last_call.idle[q] = MaxIdle(3)
          /\ q \notin DOMAIN returned
          /\ \A o \in Range(peer_forwarding[RouteTarget]) \ {q} :
                CounterOf(returned, o) = MaxStreak

====
